---- MODULE Spec2Model ----
(***************************************************************************)
(* A model of forge's coordination engine (src/forge/cli.py): the deploy   *)
(* conflict detector (Baker.deploy), the fan-out primitive (async_map,     *)
(* async_apply, force) and the bake pipeline built from it (Baker.bake,    *)
(* Baker.is_raw).                                                          *)
(*                                                                         *)
(* Each command of the CLI has its own specification (SpecDeploy, ...):    *)
(* main() dispatches one subcommand per process, so the commands never     *)
(* interleave.  The variables of the commands that are not running keep    *)
(* their idle values.                                                      *)
(***************************************************************************)
EXTENDS Integers, Sequences, FiniteSets, TLC

\* ------------------------------------------------------------------ bounds
MaxServices == 3      \* services found by scan()
MaxOut == 2           \* resource names printed by one dry-run apply
MaxItems == 3         \* items handed to one async_map
MaxContainers == 3    \* containers of the scanned services

\* Cluster resource names that a manifest can declare.
Resources == {"a", "b"}

\* ---------------------------------------------------------------- helpers
RECURSIVE SeqsUpTo(_, _)
SeqsUpTo(S, n) ==
    IF n = 0 THEN {<<>>}
    ELSE LET shorter == SeqsUpTo(S, n - 1)
         IN  shorter \cup {Append(q, x) : q \in {p \in shorter : Len(p) = n - 1}, x \in S}

\* ================================================================ deploy
VARIABLES
    services,    \* the services scan() returned, in scan order (line 240)
    dry_run,     \* self.dry_run, the operator's --dry-run flag (line 377)
    owners,      \* owners: resource name -> owning service (line 242)
    conflicts,   \* conflicts: list of (resource, first owner, second owner) (line 243)
    kube_files,  \* kube_files: the kube.yaml of each processed service (line 244)
    calls,       \* the Workstream's ledger of commands issued by self.call
    deploy_pc,   \* where deploy is: "loop", "apply", "done", "raised", "failed"
    next_svc,    \* index into services of the `for svc in services` loop
    next_file,   \* index into kube_files of the `for kube_file in kube_files` loop
    error        \* the conflicts listed by the CLIError deploy raised, if any

deployVars == <<services, dry_run, owners, conflicts, kube_files, calls,
                deploy_pc, next_svc, next_file, error>>

\* ------------------------------------------------------- fan-out state
VARIABLES
    unpack,      \* TRUE when the fan-out is async_apply: fun(*item) (line 65)
    sequence,    \* async_map's `sequence` argument, here a list (line 55)
    threads,     \* threads: the green threads spawned so far (line 56)
    fan_pc,      \* where the caller is: "spawn", "wait", "blocked", "done", "raised"
    waiting,     \* index into threads of the `for thread in threads` loop
    yielded,     \* the list force()/list() builds from the yielded results
    finished     \* the positions of the threads, in the order they completed

fanVars == <<unpack, sequence, threads, fan_pc, waiting, yielded, finished>>

\* ---------------------------------------------------------- bake state
VARIABLES
    images,      \* per scanned container: what the registry and the local
                 \* image store hold for its image when bake runs
    checks,      \* the green threads of the inner fan-out (is_raw, line 216)
    builds,      \* the green threads of the outer fan-out (docker build, line 220)
    bake_pc,     \* where bake is: "start", "inner_wait", "inner_blocked",
                 \* "outer_wait", "outer_blocked", "done", "raised"
    check_wait,  \* index into checks of the inner `for thread in threads`
    build_wait   \* index into builds of the outer `for thread in threads`

bakeVars == <<images, checks, builds, bake_pc, check_wait, build_wait>>

\* ------------------------------------------- state of the other commands
\* ---------------------------------------------------------- push state
VARIABLES
    push_images,   \* per scanned container: what the registry and the local
                   \* image store hold for its image now
    push_start,    \* push_images as they were when the current push run began
    push_checks,   \* the green threads of the selection fan-out (line 229)
    push_local,    \* local: the list of the selected containers (line 229)
    push_threads,  \* the green threads of the docker-push fan-out (line 235)
    push_calls,    \* the ledger of docker login / docker push commands issued
    push_pc,       \* where push is: "start", "select", "select_blocked",
                   \* "selected", "push", "push_blocked", "done", "raised"
    push_wait,     \* index of the `for thread in threads` loop under way
    push_run       \* 1 for the first push run, 2 for the one right after it

pushVars == <<push_images, push_start, push_checks, push_local, push_threads,
              push_calls, push_pc, push_wait, push_run>>

\* The state of push while another command runs.
PushIdle ==
    /\ push_images = <<>>
    /\ push_start = <<>>
    /\ push_checks = <<>>
    /\ push_local = <<>>
    /\ push_threads = <<>>
    /\ push_calls = <<>>
    /\ push_pc = "idle"
    /\ push_wait = 1
    /\ push_run = 1

\* -------------------------------------------------------- pushed state
VARIABLES
    pushed_reqs,      \* the HTTP requests one call of pushed() has issued, each
                      \* with the status of its response
    pushed_response,  \* response: the manifest response held at the moment
    pushed_pc,        \* "call", "first", "token", "retry", "decide",
                      \* "returned", "raised"
    pushed_result     \* what the call returned or raised

pushedVars == <<pushed_reqs, pushed_response, pushed_pc, pushed_result>>

\* A body with no section at all.
EmptyBody == [signatures |-> FALSE, fsLayers |-> FALSE, hasErrors |-> FALSE, errors |-> <<>>]

NoResponse == [status |-> 0, body |-> EmptyBody, challenge |-> "no header"]

\* The state of pushed while another command runs.
PushedIdle ==
    /\ pushed_reqs = <<>>
    /\ pushed_response = NoResponse
    /\ pushed_pc = "idle"
    /\ pushed_result = "none"

\* ------------------------------------------------------------ gh state
VARIABLES
    gh_pages,     \* the chain of responses the API serves: page i is the
                  \* response to the i-th URL of the chain
    gh_status,    \* the status of the first response
    gh_expected,  \* the `expected` argument of the call
    gh_reqs,      \* the URLs requested so far, as page numbers
    gh_result,    \* result: the items collected so far
    gh_next_url,  \* next_url, 0 for None
    gh_pc         \* "call", "loop", "done", "raised"

ghVars == <<gh_pages, gh_status, gh_expected, gh_reqs, gh_result, gh_next_url, gh_pc>>

\* The state of gh while another command runs.
GhIdle ==
    /\ gh_pages = <<>>
    /\ gh_status = 200
    /\ gh_expected = {}
    /\ gh_reqs = <<>>
    /\ gh_result = <<>>
    /\ gh_next_url = 0
    /\ gh_pc = "idle"

\* ---------------------------------------------------------- pull state
VARIABLES
    pull_repos,     \* repos: what the listing returned, per entry whether the
                    \* repository still exists when it is fetched
    pull_filter,    \* self.filter, a glob pattern
    pull_dirs0,     \* the entries whose directory existed when pull began
    pull_dirs,      \* the entries whose directory exists now
    pull_verify,    \* the green threads of the verification fan-out
    pull_urls,      \* urls: the entries that survived verification
    pull_syncs,     \* the green threads of the git_pull fan-out
    pull_inited,    \* the entries whose `git init` has returned
    pull_pulled,    \* the entries whose `git pull` has been issued
    pull_pc,        \* "call", "verify", "verify_blocked", "verified", "sync",
                    \* "sync_blocked", "done", "raised"
    pull_wait       \* index of the `for thread in threads` loop under way

pullVars == <<pull_repos, pull_filter, pull_dirs0, pull_dirs, pull_verify,
              pull_urls, pull_syncs, pull_inited, pull_pulled, pull_pc, pull_wait>>

\* The state of pull while another command runs.
PullIdle ==
    /\ pull_repos = <<>>
    /\ pull_filter = <<>>
    /\ pull_dirs0 = {}
    /\ pull_dirs = {}
    /\ pull_verify = <<>>
    /\ pull_urls = <<>>
    /\ pull_syncs = <<>>
    /\ pull_inited = {}
    /\ pull_pulled = {}
    /\ pull_pc = "idle"
    /\ pull_wait = 1

\* -------------------------------------------------- inject_token state
VARIABLES
    inj_url,     \* the clone URL, a string of characters
    inj_token,   \* self.token of the run, <<>> when not set
    inj_other,   \* self.token of a second run over the same URL
    inj_value,   \* what inject_token returned in the run
    inj_value2,  \* what it returned in the second run
    inj_line,    \* the rendering of the git pull argument in the run
    inj_line2,   \* its rendering in the second run
    inj_pc       \* "call", "injected", "rendered"

injVars == <<inj_url, inj_token, inj_other, inj_value, inj_value2, inj_line,
             inj_line2, inj_pc>>

\* No value yet.
NoValue == [kind |-> "none", segs |-> <<>>]

\* The state of inject_token while another command runs.
InjectIdle ==
    /\ inj_url = <<>>
    /\ inj_token = <<>>
    /\ inj_other = <<>>
    /\ inj_value = NoValue
    /\ inj_value2 = NoValue
    /\ inj_line = <<>>
    /\ inj_line2 = <<>>
    /\ inj_pc = "idle"

\* ---------------------------------------------------------- scan state
VARIABLES
    scan_parent,      \* the workspace tree: the directory each directory is in
                      \* (directory 1 is self.workdir)
    scan_names,       \* per directory, the marker files it holds and whether
                      \* its own name is .git
    scan_stack,       \* the frames of descend() under way, innermost last
    scan_entered,     \* the directories descend() has listed
    scan_prototypes,  \* prototypes
    scan_services,    \* services, each with its root and its containers
    scan_pc           \* "call", "scan", "done", "raised"

scanVars == <<scan_parent, scan_names, scan_stack, scan_entered, scan_prototypes,
              scan_services, scan_pc>>

\* The state of scan while another command runs.
ScanIdle ==
    /\ scan_parent = <<>>
    /\ scan_names = <<>>
    /\ scan_stack = <<>>
    /\ scan_entered = {}
    /\ scan_prototypes = <<>>
    /\ scan_services = <<>>
    /\ scan_pc = "idle"

\* ------------------------------------------------------- default state
VARIABLES
    def_args0,  \* args as docopt parsed the command line
    def_args,   \* args now
    def_conf,   \* conf: per name the value the config file gives it
    def_file,   \* whether get_config found a config file
    def_i,      \* position in the tuple of names the loop under way is at
    def_pc      \* "call", "options", "positionals", "done", "raised"

defVars == <<def_args0, def_args, def_conf, def_file, def_i, def_pc>>

\* The state of default while another command runs.
DefaultIdle ==
    /\ def_args0 = <<>>
    /\ def_args = <<>>
    /\ def_conf = <<>>
    /\ def_file = FALSE
    /\ def_i = 1
    /\ def_pc = "idle"

laterVars == <<pushVars, pushedVars, ghVars, pullVars, injVars, scanVars, defVars>>

\* The state of the commands modelled further down while another runs.
LaterIdle ==
    /\ PushIdle
    /\ PushedIdle
    /\ GhIdle
    /\ PullIdle
    /\ InjectIdle
    /\ ScanIdle
    /\ DefaultIdle

\* ------------------------------------------------- every command's state

vars == <<deployVars, fanVars, bakeVars, laterVars>>

\* The state of bake while another command runs.
BakeIdle ==
    /\ images = <<>>
    /\ checks = <<>>
    /\ builds = <<>>
    /\ bake_pc = "idle"
    /\ check_wait = 1
    /\ build_wait = 1

\* The state of the fan-out while another command runs.
FanIdle ==
    /\ unpack = FALSE
    /\ sequence = <<>>
    /\ threads = <<>>
    /\ fan_pc = "idle"
    /\ waiting = 1
    /\ yielded = <<>>
    /\ finished = <<>>

\* What self.call does with a command that exits: it returns the result, or
\* the failure propagates to the caller as an exception.
CallOutcomes == {"ok", "fail"}

\* What `kubectl apply --dry-run -f kube_file -o name` can print, split on
\* whitespace: any list of resource names, repeats included.
DryRunOutputs == SeqsUpTo(Resources, MaxOut)

\* self.call("./deployment", "metadata.yaml", cwd=svc.root)
RenderCmd(svc, outcome) ==
    [cmd |-> "deployment", svc |-> svc, dry |-> FALSE, ok |-> outcome = "ok", out |-> <<>>]

\* self.call("kubectl", "apply", "--dry-run", "-f", kube_file, "-o", "name")
DiscoverCmd(svc, outcome, out) ==
    [cmd |-> "discover", svc |-> svc, dry |-> TRUE, ok |-> outcome = "ok", out |-> out]

ApplyCmdNoFlag(kube_file, flag, outcome) ==
    [cmd |-> "apply", svc |-> kube_file, dry |-> FALSE, ok |-> outcome = "ok", out |-> <<>>]

\* cmd = "kubectl", "apply", "-f", kube_file; if self.dry_run: cmd += "--dry-run",
ApplyCmd(kube_file, flag, outcome) ==
    [cmd |-> "apply", svc |-> kube_file, dry |-> flag, ok |-> outcome = "ok", out |-> <<>>]

RecordClaimOverwrite(own, conf, resource, svc) ==
    IF resource \in DOMAIN own
    THEN [own |-> [r \in DOMAIN own |-> IF r = resource THEN svc ELSE own[r]],
          conf |-> Append(conf, <<resource, own[resource], svc>>)]
    ELSE [own |-> (resource :> svc) @@ own, conf |-> conf]

\* One round of `for resource in resources`: a name already in owners is a
\* conflict (whoever owns it), a new name is claimed by svc.
RecordClaim(own, conf, resource, svc) ==
    IF resource \in DOMAIN own
    THEN [own |-> own, conf |-> Append(conf, <<resource, own[resource], svc>>)]
    ELSE [own |-> (resource :> svc) @@ own, conf |-> conf]

\* The whole `for resource in resources` loop over one dry-run's output.
RECURSIVE RecordClaims(_, _, _, _)
RecordClaims(own, conf, resources, svc) ==
    IF resources = <<>> THEN [own |-> own, conf |-> conf]
    ELSE LET one == RecordClaim(own, conf, Head(resources), svc)
         IN  RecordClaims(one.own, one.conf, Tail(resources), svc)

AbortsOnSecond(conf) == Len(conf) > 1

\* `if conflicts:`
Aborts(conf) == conf # <<>>

DeployInit ==
    /\ services \in {[i \in 1..n |-> i] : n \in 0..MaxServices}
    /\ dry_run \in BOOLEAN
    /\ owners = <<>>
    /\ conflicts = <<>>
    /\ kube_files = <<>>
    /\ calls = <<>>
    /\ deploy_pc = "loop"
    /\ next_svc = 1
    /\ next_file = 1
    /\ error = <<>>
    /\ FanIdle
    /\ BakeIdle
    /\ LaterIdle

\* One round of `for svc in services` in which every step succeeds: render
\* the manifest, write kube.yaml, dry-run-apply it and record its claims.
DeployService ==
    /\ deploy_pc = "loop"
    /\ next_svc <= Len(services)
    /\ \E out \in DryRunOutputs :
         LET svc == services[next_svc]
             rec == RecordClaims(owners, conflicts, out, svc)
         IN  /\ calls' = calls \o <<RenderCmd(svc, "ok"), DiscoverCmd(svc, "ok", out)>>
             /\ owners' = rec.own
             /\ conflicts' = rec.conf
             /\ kube_files' = Append(kube_files, svc)
    /\ next_svc' = next_svc + 1
    /\ UNCHANGED <<services, dry_run, deploy_pc, next_file, error>>

\* The ./deployment call of the current service fails: deploy raises there.
DeployRenderFails ==
    /\ deploy_pc = "loop"
    /\ next_svc <= Len(services)
    /\ calls' = Append(calls, RenderCmd(services[next_svc], "fail"))
    /\ deploy_pc' = "failed"
    /\ UNCHANGED <<services, dry_run, owners, conflicts, kube_files, next_svc,
                   next_file, error>>

\* The dry-run apply of the current service fails: deploy raises there.
DeployDryRunFails ==
    /\ deploy_pc = "loop"
    /\ next_svc <= Len(services)
    /\ LET svc == services[next_svc]
       IN  calls' = calls \o <<RenderCmd(svc, "ok"), DiscoverCmd(svc, "fail", <<>>)>>
    /\ deploy_pc' = "failed"
    /\ UNCHANGED <<services, dry_run, owners, conflicts, kube_files, next_svc,
                   next_file, error>>

\* After the loop: raise CLIError listing the conflicts, or go on to apply.
DeployCheck ==
    /\ deploy_pc = "loop"
    /\ next_svc > Len(services)
    /\ IF Aborts(conflicts)
       THEN deploy_pc' = "raised" /\ error' = conflicts
       ELSE deploy_pc' = "apply" /\ error' = error
    /\ UNCHANGED <<services, dry_run, owners, conflicts, kube_files, calls,
                   next_svc, next_file>>

\* One round of `for kube_file in kube_files`: the final apply of one file.
DeployApply ==
    /\ deploy_pc = "apply"
    /\ next_file <= Len(kube_files)
    /\ \E outcome \in CallOutcomes :
         /\ calls' = Append(calls, ApplyCmd(kube_files[next_file], dry_run, outcome))
         /\ IF outcome = "ok"
            THEN deploy_pc' = deploy_pc /\ next_file' = next_file + 1
            ELSE deploy_pc' = "failed" /\ next_file' = next_file
    /\ UNCHANGED <<services, dry_run, owners, conflicts, kube_files, next_svc, error>>

\* The apply loop is exhausted: deploy returns.
DeployReturn ==
    /\ deploy_pc = "apply"
    /\ next_file > Len(kube_files)
    /\ deploy_pc' = "done"
    /\ UNCHANGED <<services, dry_run, owners, conflicts, kube_files, calls,
                   next_svc, next_file, error>>

DeployStep ==
    \/ DeployService
    \/ DeployRenderFails
    \/ DeployDryRunFails
    \/ DeployCheck
    \/ DeployApply
    \/ DeployReturn

DeployNext == DeployStep /\ UNCHANGED <<fanVars, bakeVars, laterVars>>

SpecDeploy == DeployInit /\ [][DeployNext]_vars

\* ------------------------------------------------- deploy: derived notions
Terminal == {"done", "raised", "failed"}

\* The claims the ledger holds: <<resource, service>> for every name printed
\* by a dry-run apply that returned, in the order deploy reads them.
RECURSIVE ClaimsOf(_)
ClaimsOf(log) ==
    IF log = <<>> THEN <<>>
    ELSE LET c == Head(log)
             mine == IF c.cmd = "discover" /\ c.ok
                     THEN [k \in 1..Len(c.out) |-> <<c.out[k], c.svc>>]
                     ELSE <<>>
         IN  mine \o ClaimsOf(Tail(log))

Claims == ClaimsOf(calls)

\* Some resource name is claimed more than once.
DupClaim ==
    LET cl == Claims
    IN  \E p, q \in DOMAIN cl : p < q /\ cl[p][1] = cl[q][1]

\* The services whose dry-run apply returned.
Discovered == {calls[k].svc : k \in {j \in DOMAIN calls : calls[j].cmd = "discover" /\ calls[j].ok}}

AllDiscovered == Discovered = {services[k] : k \in DOMAIN services}

\* The final (non-discovery) applies issued so far, as ledger positions.
ApplyAt == {k \in DOMAIN calls : calls[k].cmd = "apply"}

\* The services whose manifest has been applied for real.
AppliedForReal == {calls[k].svc : k \in {j \in ApplyAt : calls[j].ok /\ ~calls[j].dry}}

\* The first service, in encounter order, that claimed the resource, given
\* the claims cl.
FirstClaimant(cl, r) ==
    cl[CHOOSE p \in DOMAIN cl :
          cl[p][1] = r /\ \A q \in 1..(p - 1) : cl[q][1] # r][2]

\* The conflict tuples that the later claims by another service among the
\* first k claims of cl must yield; first maps a name to its first claimant.
RECURSIVE LaterClaims(_, _, _)
LaterClaims(cl, first, k) ==
    IF k = 0 THEN <<>>
    ELSE LET r == cl[k][1]
             s == cl[k][2]
         IN  IF s # first[r]
             THEN Append(LaterClaims(cl, first, k - 1), <<r, first[r], s>>)
             ELSE LaterClaims(cl, first, k - 1)

\* The recorded conflict tuples that name two different services.
IsCross(c) == c[2] # c[3]
CrossConflicts == SelectSeq(conflicts, IsCross)

\* ------------------------------------------------------- deploy: claims

\* C1: in any deploy run, once some resource name returned by the dry-run
\* applies is claimed more than once, no final `kubectl apply -f kube_file`
\* is ever issued, and a run whose dry-run applies all returned ends by
\* raising one CLIError (which lists at least one conflict).
C1_ConflictCommitsNothing ==
    DupClaim =>
        /\ ApplyAt = {}
        /\ deploy_pc \notin {"apply", "done"}
        /\ (deploy_pc \in Terminal /\ AllDiscovered) =>
               (deploy_pc = "raised" /\ error # <<>>)

\* C1 witness: the spec's example shape, two services claiming the same name,
\* has ended in the CLIError.
C1_Witness ==
    /\ deploy_pc = "raised"
    /\ Len(services) >= 2
    /\ LET cl == Claims
       IN  \E p, q \in DOMAIN cl :
             p < q /\ cl[p][1] = cl[q][1] /\ cl[p][2] # cl[q][2]
    /\ ApplyAt = {}

\* C2: every recorded conflict tuple (resource, first_owner, second_owner)
\* names two different services.
C2_ConflictNamesTwoServices ==
    \A k \in DOMAIN conflicts : conflicts[k][2] # conflicts[k][3]

\* C3 (state part): owners maps every claimed name to its first claimant;
\* the later claims by other services are exactly the conflict tuples that
\* name two services, in order; once the loop is left every service has been
\* dry-run-processed; and the error raised lists every conflict.
C3_Collected ==
    /\ LET cl == Claims
           claimed == {cl[p][1] : p \in DOMAIN cl}
           first == [r \in claimed |-> FirstClaimant(cl, r)]
       IN  /\ DOMAIN owners = claimed
           /\ \A r \in claimed : owners[r] = first[r]
           /\ CrossConflicts = LaterClaims(cl, first, Len(cl))
    /\ deploy_pc \in {"apply", "done", "raised"} => AllDiscovered
    /\ deploy_pc = "raised" => error = conflicts

\* C3 (step part): no step reassigns or drops an owner.
C3_OwnerKept ==
    \A r \in DOMAIN owners : r \in DOMAIN owners' /\ owners'[r] = owners[r]

\* C3: deploy collects all conflicts without aborting early and never
\* overwrites an owner.
C3_CollectsAllConflicts == [](C3_Collected) /\ [][C3_OwnerKept]_vars

\* C3 witness: a conflict was found at the second service, the third service
\* was still processed and added a conflict of its own, and deploy raised.
C3_Witness ==
    /\ deploy_pc = "raised"
    /\ Len(services) = 3
    /\ Len(CrossConflicts) >= 2
    /\ CrossConflicts[1][3] = 2
    /\ \E k \in DOMAIN CrossConflicts : CrossConflicts[k][3] = 3

\* The services of the final applies, in the order they were issued.
RECURSIVE ApplyOrder(_)
ApplyOrder(log) ==
    IF log = <<>> THEN <<>>
    ELSE IF Head(log).cmd = "apply"
         THEN <<Head(log).svc>> \o ApplyOrder(Tail(log))
         ELSE ApplyOrder(Tail(log))

\* C4: when no name is claimed twice and no step fails, deploy ends having
\* issued exactly one final apply per scanned service, in the order the
\* manifests were generated; every discovery apply precedes the first final
\* apply; and every final apply carries --dry-run exactly when the flag is set.
C4_NoConflictAppliesInOrder ==
    /\ \A p \in ApplyAt : \A q \in DOMAIN calls :
           calls[q].cmd = "discover" => q < p
    /\ \A p \in ApplyAt : calls[p].dry = dry_run
    /\ ApplyAt # {} => ~DupClaim /\ AllDiscovered
    /\ ApplyOrder(calls) = SubSeq(services, 1, Len(ApplyOrder(calls)))
    /\ deploy_pc = "done" => ApplyOrder(calls) = services
    /\ (deploy_pc \in Terminal /\ AllDiscovered /\ ~DupClaim
            /\ \A k \in DOMAIN calls : calls[k].ok) => deploy_pc = "done"

\* C4 witness: a no-conflict deploy of two or more services with the
\* --dry-run flag set has returned.
C4_Witness ==
    /\ deploy_pc = "done"
    /\ Len(services) >= 2
    /\ dry_run
    /\ Claims # <<>>
    /\ Len(ApplyOrder(calls)) = Len(services)

\* C5: at the end of any deploy run, failing runs included, the services
\* applied for real are none or all of the scanned services.
C5_NeverPartiallyCommits ==
    deploy_pc \in Terminal =>
        \/ AppliedForReal = {}
        \/ AppliedForReal = {services[k] : k \in DOMAIN services}

\* =============================================================== fan-out
\* async_map(fun, sequence) driven by force(): list() asks the generator for
\* one result after another.  eventlet runs one green thread at a time: a
\* spawned thread runs only while the caller is switched out, which here
\* happens only inside thread.wait() on a thread that has not finished.

\* The items a caller hands over: argument tuples.
Items == {<<"x">>, <<"y", "z">>}

\* OMIT = object(), the skip sentinel (line 53).
OMIT == <<"OMIT">>

\* A thread's result while it has none, and when fun raised.
NoResult == <<"none">>
Raised == <<"raise">>

\* The value fun returns for the arguments it is called with.
FunValue(args) == <<"r">> \o args

\* async_map calls fun(item); async_apply calls fun(*item) (line 65).
CallFun(item, star) == IF star THEN FunValue(item) ELSE FunValue(<<item>>)

FanInit ==
    /\ unpack \in BOOLEAN
    /\ sequence \in SeqsUpTo(Items, MaxItems)
    /\ threads = <<>>
    /\ fan_pc = "spawn"
    /\ waiting = 1
    /\ yielded = <<>>
    /\ finished = <<>>

\* eventlet.spawn(fun, item): a new green thread that has not run yet.
Spawned == [state |-> "spawned", result |-> NoResult]

CollectPrepend(list, result) ==
    IF result # OMIT THEN <<result>> \o list ELSE list

CollectAll(list, result) == Append(list, result)

\* `if result is not OMIT: yield result`, into the caller's list.
Collect(list, result) ==
    IF result # OMIT THEN Append(list, result) ELSE list

\* The first loop: one thread per item, all spawned before any wait.  The
\* caller does not switch out, so none of them runs yet.
FanSpawn ==
    /\ fan_pc = "spawn"
    /\ threads' = [i \in DOMAIN sequence |-> Spawned]
    /\ fan_pc' = "wait"
    /\ UNCHANGED <<unpack, sequence, waiting, yielded, finished>>

\* What the caller does with the finished thread it waits on.
TakeResult ==
    LET result == threads[waiting].result
    IN  IF result = Raised
        THEN /\ fan_pc' = "raised"
             /\ UNCHANGED <<waiting, yielded>>
        ELSE /\ fan_pc' = "wait"
             /\ waiting' = waiting + 1
             /\ yielded' = Collect(yielded, result)

\* thread.wait() on the next thread: it returns (or raises) at once when the
\* thread has finished, and switches the caller out otherwise.
FanWait ==
    /\ fan_pc = "wait"
    /\ waiting <= Len(threads)
    /\ IF threads[waiting].state = "done"
       THEN TakeResult
       ELSE fan_pc' = "blocked" /\ UNCHANGED <<waiting, yielded>>
    /\ UNCHANGED <<unpack, sequence, threads, finished>>

\* The thread waited on has finished: the caller is switched back in.
FanResume ==
    /\ fan_pc = "blocked"
    /\ threads[waiting].state = "done"
    /\ TakeResult
    /\ UNCHANGED <<unpack, sequence, threads, finished>>

\* The second loop is exhausted: the generator ends, list() returns.
FanReturn ==
    /\ fan_pc = "wait"
    /\ waiting > Len(threads)
    /\ fan_pc' = "done"
    /\ UNCHANGED <<unpack, sequence, threads, waiting, yielded, finished>>

\* A spawned thread is switched in and runs fun up to its first blocking call.
ThreadStart(i) ==
    /\ fan_pc = "blocked"
    /\ threads[i].state = "spawned"
    /\ threads' = [threads EXCEPT ![i].state = "running"]
    /\ UNCHANGED <<unpack, sequence, fan_pc, waiting, yielded, finished>>

\* A running thread ends: fun returned its value, returned OMIT, or raised.
ThreadFinish(i) ==
    /\ fan_pc = "blocked"
    /\ threads[i].state = "running"
    /\ \E result \in {CallFun(sequence[i], unpack), OMIT, Raised} :
         threads' = [threads EXCEPT ![i] = [state |-> "done", result |-> result]]
    /\ finished' = Append(finished, i)
    /\ UNCHANGED <<unpack, sequence, fan_pc, waiting, yielded>>

FanStep ==
    \/ FanSpawn
    \/ FanWait
    \/ FanResume
    \/ FanReturn
    \/ \E i \in DOMAIN threads : ThreadStart(i)
    \/ \E i \in DOMAIN threads : ThreadFinish(i)

FanNext == FanStep /\ UNCHANGED <<deployVars, bakeVars, laterVars>>

\* The deploy state while another command runs.
DeployIdle ==
    /\ services = <<>>
    /\ dry_run = FALSE
    /\ owners = <<>>
    /\ conflicts = <<>>
    /\ kube_files = <<>>
    /\ calls = <<>>
    /\ deploy_pc = "idle"
    /\ next_svc = 1
    /\ next_file = 1
    /\ error = <<>>

InitFanOut == FanInit /\ DeployIdle /\ BakeIdle /\ LaterIdle

SpecFanOut == InitFanOut /\ [][FanNext]_vars

\* ------------------------------------------------------ fan-out: claims
\* The positions whose fun returned OMIT.
Skipped == {i \in DOMAIN threads : threads[i].result = OMIT}

\* The results of positions 1..k in input order, the OMIT ones left out.
RECURSIVE InOrder(_)
InOrder(k) ==
    IF k = 0 THEN <<>>
    ELSE IF threads[k].result = OMIT
         THEN InOrder(k - 1)
         ELSE Append(InOrder(k - 1), CallFun(sequence[k], unpack))

\* C6: whatever order the threads complete in, the results collected so far
\* are the results of the positions already waited on, in input order and
\* without the OMIT ones; on return they are those of the whole input.
C6_FanOutOrder ==
    /\ fan_pc \in {"wait", "blocked", "raised", "done"} => yielded = InOrder(waiting - 1)
    /\ fan_pc = "done" => yielded = InOrder(Len(sequence))

\* C6 witness: a fan-out has returned two or more results although a later
\* thread completed before an earlier one.
C6_Witness ==
    /\ fan_pc = "done"
    /\ Len(yielded) >= 2
    /\ \E p, q \in DOMAIN finished : p < q /\ finished[p] > finished[q]

\* How many times v occurs in the list.
Count(list, v) == Cardinality({k \in DOMAIN list : list[k] = v})

\* C7: when the fan-out (async_map or async_apply) returns, its output has
\* len(items) - |S| results for S the positions whose fun returned OMIT: OMIT
\* itself is never yielded and every value occurs exactly as often as the
\* positions outside S that produced it.
C7_FanOutSkip ==
    fan_pc = "done" =>
        /\ Len(yielded) = Len(sequence) - Cardinality(Skipped)
        /\ Count(yielded, OMIT) = 0
        /\ \A item \in Items :
             Count(yielded, CallFun(item, unpack)) =
                 Cardinality({i \in DOMAIN sequence \ Skipped : sequence[i] = item})

\* C7 witness: an async_apply fan-out has returned with some but not all of
\* its items skipped.
C7_Witness ==
    /\ fan_pc = "done"
    /\ unpack
    /\ Skipped # {}
    /\ Skipped # DOMAIN sequence
    /\ Len(sequence) >= 3

\* ================================================================== bake
\* bake() chains two fan-outs: `raw` is the generator of the is_raw checks
\* and is itself the sequence of the docker-build fan-out, so the outer
\* spawn loop pulls the inner generator one result at a time.

\* Python's truth value of the values is_raw handles: booleans, and the
\* output of `docker images -q` (empty when there is no such image).
Truthy(v) == v \notin {"False", ""}

PyNot(v) == IF Truthy(v) THEN "False" ELSE "True"

\* `a or b` gives a when a is truthy and b otherwise.
PyOr(a, b) == IF Truthy(a) THEN a ELSE b

IsRawAnd(pushed, baked) == IF Truthy(PyNot(pushed)) THEN baked ELSE PyNot(pushed)

\* return not self.pushed(name, version) or self.baked(name, version)
IsRaw(pushed, baked) == PyOr(PyNot(pushed), baked)

\* What pushed() answers for an image: its two return values (lines 192, 195).
PushedValues == {"True", "False"}

\* What baked() answers: the output of `docker images -q <image>` (line 177).
BakedValues == {"", "3f1a"}

\* A check thread: spawned, then inside pushed() ("pushed"), then, when the
\* `or` needs its right operand, inside baked() ("baked"), then done.
CheckSpawned == [state |-> "spawned", result |-> NoResult]

\* (svc, name, container) if self.is_raw(name, svc.version) else OMIT
CheckResult(item, raw) == IF Truthy(raw) THEN <<"item", item>> ELSE OMIT

BakeInit ==
    /\ images \in UNION {[1..n -> [pushed : PushedValues, baked : BakedValues]] :
                           n \in 0..MaxContainers}
    /\ checks = <<>>
    /\ builds = <<>>
    /\ bake_pc = "start"
    /\ check_wait = 1
    /\ build_wait = 1

\* force() asks the outer generator for its first result; its spawn loop asks
\* `raw` for its first item; the inner spawn loop spawns one check per
\* container.  Nothing has switched the caller out yet.
BakeSpawnChecks ==
    /\ bake_pc = "start"
    /\ checks' = [i \in DOMAIN images |-> CheckSpawned]
    /\ bake_pc' = "inner_wait"
    /\ UNCHANGED <<images, builds, check_wait, build_wait>>

\* The caller takes the result of the check it waited on: the exception
\* propagates out of bake; OMIT is dropped; an item is yielded to the outer
\* spawn loop, which spawns its docker build and asks `raw` for the next.
TakeCheck ==
    LET result == checks[check_wait].result
    IN  IF result = Raised
        THEN /\ bake_pc' = "raised"
             /\ UNCHANGED <<builds, check_wait>>
        ELSE /\ bake_pc' = "inner_wait"
             /\ check_wait' = check_wait + 1
             /\ builds' = IF result = OMIT THEN builds
                          ELSE Append(builds, [item |-> result[2], state |-> "spawned"])

\* thread.wait() of the inner fan-out.
BakeWaitCheck ==
    /\ bake_pc = "inner_wait"
    /\ check_wait <= Len(checks)
    /\ IF checks[check_wait].state = "done"
       THEN TakeCheck
       ELSE bake_pc' = "inner_blocked" /\ UNCHANGED <<builds, check_wait>>
    /\ UNCHANGED <<images, checks, build_wait>>

\* The check waited on has finished: the caller is switched back in.
BakeResumeCheck ==
    /\ bake_pc = "inner_blocked"
    /\ checks[check_wait].state = "done"
    /\ TakeCheck
    /\ UNCHANGED <<images, checks, build_wait>>

\* `raw` is exhausted: the outer spawn loop ends and its wait loop begins.
BakeChecksDone ==
    /\ bake_pc = "inner_wait"
    /\ check_wait > Len(checks)
    /\ bake_pc' = "outer_wait"
    /\ UNCHANGED <<images, checks, builds, check_wait, build_wait>>

\* The caller takes the result of the build it waited on.
TakeBuild ==
    IF builds[build_wait].state = "failed"
    THEN bake_pc' = "raised" /\ UNCHANGED build_wait
    ELSE bake_pc' = "outer_wait" /\ build_wait' = build_wait + 1

\* thread.wait() of the outer fan-out.
BakeWaitBuild ==
    /\ bake_pc = "outer_wait"
    /\ build_wait <= Len(builds)
    /\ IF builds[build_wait].state \in {"done", "failed"}
       THEN TakeBuild
       ELSE bake_pc' = "outer_blocked" /\ UNCHANGED build_wait
    /\ UNCHANGED <<images, checks, builds, check_wait>>

\* The build waited on has finished: the caller is switched back in.
BakeResumeBuild ==
    /\ bake_pc = "outer_blocked"
    /\ builds[build_wait].state \in {"done", "failed"}
    /\ TakeBuild
    /\ UNCHANGED <<images, checks, builds, check_wait>>

\* Every build has been waited on: force() returns and so does bake.
BakeReturn ==
    /\ bake_pc = "outer_wait"
    /\ build_wait > Len(builds)
    /\ bake_pc' = "done"
    /\ UNCHANGED <<images, checks, builds, check_wait, build_wait>>

\* Green threads run only while the caller is switched out.
SwitchedOut == bake_pc \in {"inner_blocked", "outer_blocked"}

\* A check thread is switched in: is_raw calls pushed(), which sends its
\* manifest request.
CheckStart(i) ==
    /\ SwitchedOut
    /\ checks[i].state = "spawned"
    /\ checks' = [checks EXCEPT ![i].state = "pushed"]
    /\ UNCHANGED <<images, builds, bake_pc, check_wait, build_wait>>

\* pushed() raises CLIError (line 196): the check thread ends with it.
CheckPushedRaises(i) ==
    /\ SwitchedOut
    /\ checks[i].state = "pushed"
    /\ checks' = [checks EXCEPT ![i] = [state |-> "done", result |-> Raised]]
    /\ UNCHANGED <<images, builds, bake_pc, check_wait, build_wait>>

\* pushed() returns.  `not pushed` decides the `or` when it is true;
\* otherwise is_raw goes on to call baked().
CheckPushed(i) ==
    /\ SwitchedOut
    /\ checks[i].state = "pushed"
    /\ IF Truthy(PyNot(images[i].pushed))
       THEN checks' = [checks EXCEPT ![i] =
                [state |-> "done",
                 result |-> CheckResult(i, IsRaw(images[i].pushed, images[i].baked))]]
       ELSE checks' = [checks EXCEPT ![i].state = "baked"]
    /\ UNCHANGED <<images, builds, bake_pc, check_wait, build_wait>>

\* baked() returns the output of docker images: is_raw returns it.
CheckBaked(i) ==
    /\ SwitchedOut
    /\ checks[i].state = "baked"
    /\ checks' = [checks EXCEPT ![i] =
            [state |-> "done",
             result |-> CheckResult(i, IsRaw(images[i].pushed, images[i].baked))]]
    /\ UNCHANGED <<images, builds, bake_pc, check_wait, build_wait>>

\* A build thread is switched in: it issues its docker build.
BuildStart(j) ==
    /\ SwitchedOut
    /\ builds[j].state = "spawned"
    /\ builds' = [builds EXCEPT ![j].state = "building"]
    /\ UNCHANGED <<images, checks, bake_pc, check_wait, build_wait>>

\* The docker build ends: self.call returns, or its failure is raised.
BuildFinish(j) ==
    /\ SwitchedOut
    /\ builds[j].state = "building"
    /\ \E outcome \in CallOutcomes :
         builds' = [builds EXCEPT ![j].state = IF outcome = "ok" THEN "done" ELSE "failed"]
    /\ UNCHANGED <<images, checks, bake_pc, check_wait, build_wait>>

BakeStep ==
    \/ BakeSpawnChecks
    \/ BakeWaitCheck
    \/ BakeResumeCheck
    \/ BakeChecksDone
    \/ BakeWaitBuild
    \/ BakeResumeBuild
    \/ BakeReturn
    \/ \E i \in DOMAIN checks : CheckStart(i)
    \/ \E i \in DOMAIN checks : CheckPushedRaises(i)
    \/ \E i \in DOMAIN checks : CheckPushed(i)
    \/ \E i \in DOMAIN checks : CheckBaked(i)
    \/ \E j \in DOMAIN builds : BuildStart(j)
    \/ \E j \in DOMAIN builds : BuildFinish(j)

BakeNext == BakeStep /\ UNCHANGED <<deployVars, fanVars, laterVars>>

InitBake == BakeInit /\ DeployIdle /\ FanIdle /\ LaterIdle

SpecBake == InitBake /\ [][BakeNext]_vars

\* --------------------------------------------------------- bake: claims
\* The containers whose docker build has been issued.
BuildsStarted == {builds[j].item : j \in {k \in DOMAIN builds : builds[k].state # "spawned"}}

\* C8: when the needs-build check of some container raises and bake ends
\* with that failure, no docker build has been started in that run.
C8_FailureStartsNoBuild ==
    (bake_pc = "raised" /\ \E i \in DOMAIN checks : checks[i].result = Raised)
        => BuildsStarted = {}

\* C9: no docker build starts before the needs-build check of every scanned
\* container has completed.
C9_BuildsAfterAllChecks ==
    BuildsStarted # {} => \A i \in DOMAIN checks : checks[i].state = "done"

\* The containers that must be built: not published, or built locally.
MustBuild == {i \in DOMAIN images : images[i].pushed = "False" \/ images[i].baked # ""}

\* C10: is_raw is falsy exactly for an image that is published and not built
\* locally; bake spawns at most one docker build per container and only for
\* containers whose is_raw is truthy, and a bake that returns has issued the
\* build of every such container.
C10_BuildSelection ==
    /\ \A i \in DOMAIN checks :
         (checks[i].state = "done" /\ checks[i].result # Raised) =>
             /\ checks[i].result # OMIT <=>
                    ~(images[i].pushed = "True" /\ images[i].baked = "")
             /\ images[i].pushed = "False" => checks[i].result = <<"item", i>>
             /\ images[i].baked # "" => checks[i].result = <<"item", i>>
    /\ \A j, k \in DOMAIN builds : builds[j].item = builds[k].item => j = k
    /\ {builds[j].item : j \in DOMAIN builds} \subseteq MustBuild
    /\ bake_pc = "done" => BuildsStarted = MustBuild

\* C10 witness: a bake over all four (pushed, baked) states short of one has
\* returned, having built some containers and left another alone.
C10_Witness ==
    /\ bake_pc = "done"
    /\ Len(images) = 3
    /\ \E i \in DOMAIN images : images[i].pushed = "False" /\ images[i].baked = ""
    /\ \E i \in DOMAIN images : images[i].pushed = "True" /\ images[i].baked # ""
    /\ \E i \in DOMAIN images : images[i].pushed = "True" /\ images[i].baked = ""
    /\ BuildsStarted = MustBuild
    /\ Cardinality(BuildsStarted) = 2

\* ------------------------------------------------ one command at a time
\* Every command but g is idle.
IdleBut(g) ==
    /\ IF g = "deploy" THEN TRUE ELSE DeployIdle
    /\ IF g = "fan" THEN TRUE ELSE FanIdle
    /\ IF g = "bake" THEN TRUE ELSE BakeIdle
    /\ IF g = "push" THEN TRUE ELSE PushIdle
    /\ IF g = "pushed" THEN TRUE ELSE PushedIdle
    /\ IF g = "gh" THEN TRUE ELSE GhIdle
    /\ IF g = "pull" THEN TRUE ELSE PullIdle
    /\ IF g = "inject" THEN TRUE ELSE InjectIdle
    /\ IF g = "scan" THEN TRUE ELSE ScanIdle
    /\ IF g = "default" THEN TRUE ELSE DefaultIdle

\* A step of command g leaves the state of every other command alone.
UnchangedBut(g) ==
    /\ IF g = "deploy" THEN TRUE ELSE UNCHANGED deployVars
    /\ IF g = "fan" THEN TRUE ELSE UNCHANGED fanVars
    /\ IF g = "bake" THEN TRUE ELSE UNCHANGED bakeVars
    /\ IF g = "push" THEN TRUE ELSE UNCHANGED pushVars
    /\ IF g = "pushed" THEN TRUE ELSE UNCHANGED pushedVars
    /\ IF g = "gh" THEN TRUE ELSE UNCHANGED ghVars
    /\ IF g = "pull" THEN TRUE ELSE UNCHANGED pullVars
    /\ IF g = "inject" THEN TRUE ELSE UNCHANGED injVars
    /\ IF g = "scan" THEN TRUE ELSE UNCHANGED scanVars
    /\ IF g = "default" THEN TRUE ELSE UNCHANGED defVars

\* ------------------------------------------------------------- commands

\* ================================================================== push
\* push() selects with one fan-out, collected into the list `local`, logs in
\* when the list is not empty, and pushes with a second fan-out.  A second
\* run follows a run that returned, with nothing else touching the registry
\* or the local image store in between.

\* `a and b` gives a when a is falsy and b otherwise.
PyAnd(a, b) == IF Truthy(a) THEN b ELSE a

PushCandidateBaked(baked, pushed) == baked

\* self.baked(name, svc.version) and not self.pushed(name, svc.version)
PushCandidate(baked, pushed) == PyAnd(baked, PyNot(pushed))

PushInit ==
    /\ push_images \in UNION {[1..n -> [pushed : PushedValues, baked : BakedValues]] :
                                n \in 0..MaxContainers}
    /\ push_start = push_images
    /\ push_checks = <<>>
    /\ push_local = <<>>
    /\ push_threads = <<>>
    /\ push_calls = <<>>
    /\ push_pc = "start"
    /\ push_wait = 1
    /\ push_run = 1

\* list() drives the selection fan-out: one check per container is spawned.
PushSpawnChecks ==
    /\ push_pc = "start"
    /\ push_checks' = [i \in DOMAIN push_images |-> CheckSpawned]
    /\ push_pc' = "select"
    /\ UNCHANGED <<push_images, push_start, push_local, push_threads, push_calls,
                   push_wait, push_run>>

\* The caller takes the result of the check it waited on.
TakeSelection ==
    LET result == push_checks[push_wait].result
    IN  IF result = Raised
        THEN /\ push_pc' = "raised"
             /\ UNCHANGED <<push_local, push_wait>>
        ELSE /\ push_pc' = "select"
             /\ push_wait' = push_wait + 1
             /\ push_local' = IF result = OMIT THEN push_local
                              ELSE Append(push_local, result[2])

\* thread.wait() of the selection fan-out.
PushWaitCheck ==
    /\ push_pc = "select"
    /\ push_wait <= Len(push_checks)
    /\ IF push_checks[push_wait].state = "done"
       THEN TakeSelection
       ELSE push_pc' = "select_blocked" /\ UNCHANGED <<push_local, push_wait>>
    /\ UNCHANGED <<push_images, push_start, push_checks, push_threads, push_calls,
                   push_run>>

\* The check waited on has finished: the caller is switched back in.
PushResumeCheck ==
    /\ push_pc = "select_blocked"
    /\ push_checks[push_wait].state = "done"
    /\ TakeSelection
    /\ UNCHANGED <<push_images, push_start, push_checks, push_threads, push_calls,
                   push_run>>

\* Every check has been waited on: list() returns `local`.
PushSelected ==
    /\ push_pc = "select"
    /\ push_wait > Len(push_checks)
    /\ push_pc' = "selected"
    /\ UNCHANGED <<push_images, push_start, push_checks, push_local, push_threads,
                   push_calls, push_wait, push_run>>

\* `if local:` docker login; then force() drives the push fan-out, which
\* spawns one docker push per selected container.
PushSpawnPushes ==
    /\ push_pc = "selected"
    /\ \E outcome \in CallOutcomes :
         IF push_local = <<>>
         THEN /\ outcome = "ok"
              /\ push_calls' = push_calls
              /\ push_pc' = "push"
              /\ push_threads' = <<>>
         ELSE /\ push_calls' = Append(push_calls, <<"login", 0>>)
              /\ IF outcome = "ok"
                 THEN /\ push_pc' = "push"
                      /\ push_threads' = [k \in DOMAIN push_local |->
                                             [item |-> push_local[k], state |-> "spawned"]]
                 ELSE /\ push_pc' = "raised"
                      /\ push_threads' = <<>>
    /\ push_wait' = 1
    /\ UNCHANGED <<push_images, push_start, push_checks, push_local, push_run>>

\* The caller takes the result of the docker push it waited on.
TakePush ==
    IF push_threads[push_wait].state = "failed"
    THEN push_pc' = "raised" /\ UNCHANGED push_wait
    ELSE push_pc' = "push" /\ push_wait' = push_wait + 1

\* thread.wait() of the push fan-out.
PushWaitPush ==
    /\ push_pc = "push"
    /\ push_wait <= Len(push_threads)
    /\ IF push_threads[push_wait].state \in {"done", "failed"}
       THEN TakePush
       ELSE push_pc' = "push_blocked" /\ UNCHANGED push_wait
    /\ UNCHANGED <<push_images, push_start, push_checks, push_local, push_threads,
                   push_calls, push_run>>

\* The docker push waited on has finished: the caller is switched back in.
PushResumePush ==
    /\ push_pc = "push_blocked"
    /\ push_threads[push_wait].state \in {"done", "failed"}
    /\ TakePush
    /\ UNCHANGED <<push_images, push_start, push_checks, push_local, push_threads,
                   push_calls, push_run>>

\* Every docker push has been waited on: push returns.
PushReturn ==
    /\ push_pc = "push"
    /\ push_wait > Len(push_threads)
    /\ push_pc' = "done"
    /\ UNCHANGED <<push_images, push_start, push_checks, push_local, push_threads,
                   push_calls, push_wait, push_run>>

\* The operator runs push again right after a run that returned.
PushAgain ==
    /\ push_pc = "done"
    /\ push_run = 1
    /\ push_run' = 2
    /\ push_start' = push_images
    /\ push_checks' = <<>>
    /\ push_local' = <<>>
    /\ push_threads' = <<>>
    /\ push_wait' = 1
    /\ push_pc' = "start"
    /\ UNCHANGED <<push_images, push_calls>>

PushSwitchedOut == push_pc \in {"select_blocked", "push_blocked"}

\* A selection thread is switched in: it calls baked(), the left operand.
SelectStart(i) ==
    /\ PushSwitchedOut
    /\ push_checks[i].state = "spawned"
    /\ push_checks' = [push_checks EXCEPT ![i].state = "baked"]
    /\ UNCHANGED <<push_images, push_start, push_local, push_threads, push_calls,
                   push_pc, push_wait, push_run>>

\* baked() returns.  A falsy output decides the `and`; otherwise the thread
\* goes on to call pushed().
SelectBaked(i) ==
    /\ PushSwitchedOut
    /\ push_checks[i].state = "baked"
    /\ IF Truthy(push_images[i].baked)
       THEN push_checks' = [push_checks EXCEPT ![i].state = "pushed"]
       ELSE push_checks' = [push_checks EXCEPT ![i] =
                [state |-> "done",
                 result |-> CheckResult(i, PushCandidate(push_images[i].baked,
                                                         push_images[i].pushed))]]
    /\ UNCHANGED <<push_images, push_start, push_local, push_threads, push_calls,
                   push_pc, push_wait, push_run>>

\* pushed() returns: the thread ends with the item or with OMIT.
SelectPushed(i) ==
    /\ PushSwitchedOut
    /\ push_checks[i].state = "pushed"
    /\ push_checks' = [push_checks EXCEPT ![i] =
            [state |-> "done",
             result |-> CheckResult(i, PushCandidate(push_images[i].baked,
                                                     push_images[i].pushed))]]
    /\ UNCHANGED <<push_images, push_start, push_local, push_threads, push_calls,
                   push_pc, push_wait, push_run>>

\* pushed() raises CLIError (line 196): the thread ends with it.
SelectPushedRaises(i) ==
    /\ PushSwitchedOut
    /\ push_checks[i].state = "pushed"
    /\ push_checks' = [push_checks EXCEPT ![i] = [state |-> "done", result |-> Raised]]
    /\ UNCHANGED <<push_images, push_start, push_local, push_threads, push_calls,
                   push_pc, push_wait, push_run>>

\* A push thread is switched in: it issues its docker push.
DockerPushStart(j) ==
    /\ PushSwitchedOut
    /\ push_threads[j].state = "spawned"
    /\ push_threads' = [push_threads EXCEPT ![j].state = "pushing"]
    /\ push_calls' = Append(push_calls, <<"push", push_threads[j].item>>)
    /\ UNCHANGED <<push_images, push_start, push_checks, push_local, push_pc,
                   push_wait, push_run>>

\* The docker push ends: on success the registry holds the image.
DockerPushFinish(j) ==
    /\ PushSwitchedOut
    /\ push_threads[j].state = "pushing"
    /\ \E outcome \in CallOutcomes :
         IF outcome = "ok"
         THEN /\ push_threads' = [push_threads EXCEPT ![j].state = "done"]
              /\ push_images' = [push_images EXCEPT ![push_threads[j].item].pushed = "True"]
         ELSE /\ push_threads' = [push_threads EXCEPT ![j].state = "failed"]
              /\ push_images' = push_images
    /\ UNCHANGED <<push_start, push_checks, push_local, push_calls, push_pc,
                   push_wait, push_run>>

PushStep ==
    \/ PushSpawnChecks
    \/ PushWaitCheck
    \/ PushResumeCheck
    \/ PushSelected
    \/ PushSpawnPushes
    \/ PushWaitPush
    \/ PushResumePush
    \/ PushReturn
    \/ PushAgain
    \/ \E i \in DOMAIN push_checks : SelectStart(i)
    \/ \E i \in DOMAIN push_checks : SelectBaked(i)
    \/ \E i \in DOMAIN push_checks : SelectPushed(i)
    \/ \E i \in DOMAIN push_checks : SelectPushedRaises(i)
    \/ \E j \in DOMAIN push_threads : DockerPushStart(j)
    \/ \E j \in DOMAIN push_threads : DockerPushFinish(j)

PushNext == PushStep /\ UnchangedBut("push")

InitPush == PushInit /\ IdleBut("push")

SpecPush == InitPush /\ [][PushNext]_vars

\* --------------------------------------------------------- push: claims
\* The containers whose image was built locally and not published when the
\* current run began, in scan order.
RECURSIVE Candidates(_)
Candidates(k) ==
    IF k = 0 THEN <<>>
    ELSE IF push_start[k].baked # "" /\ push_start[k].pushed = "False"
         THEN Append(Candidates(k - 1), k)
         ELSE Candidates(k - 1)

\* The containers whose docker push has been issued in the current run.
PushesStarted ==
    {push_threads[j].item : j \in {k \in DOMAIN push_threads :
                                      push_threads[k].state # "spawned"}}

\* C11: the list push selects holds exactly the containers whose image is
\* built locally and not published; docker push is issued only for those, and
\* for all of them when push returns; and the run right after a push that
\* returned selects no image.
C11_PushSelection ==
    /\ push_pc \in {"selected", "push", "push_blocked", "done"} =>
           push_local = Candidates(Len(push_start))
    /\ \A j \in DOMAIN push_threads : push_threads[j].item = push_local[j]
    /\ push_pc = "done" =>
           PushesStarted = {push_local[k] : k \in DOMAIN push_local}
    /\ (push_run = 2 /\ push_pc \in {"selected", "push", "push_blocked", "done"}) =>
           push_local = <<>> /\ PushesStarted = {}

\* C11 witness: a first run pushed some images and left another alone, and
\* the run after it has returned.
C11_Witness ==
    /\ push_run = 2
    /\ push_pc = "done"
    /\ \E k \in DOMAIN push_calls : push_calls[k][1] = "push"
    /\ Len(push_calls) < Len(push_images) + 1

\* ================================================================ pushed
\* One call of pushed(name, version) against a registry that may answer
\* anything.

\* The statuses the registry and the token realm may answer with.
Statuses == {200, 401, 404, 500}

\* The lists a body's 'errors' key may hold, by the codes of their entries.
ErrorLists ==
    {<<>>, <<"MANIFEST_UNKNOWN">>, <<"NAME_UNKNOWN">>,
     <<"MANIFEST_UNKNOWN", "NAME_UNKNOWN">>, <<"NAME_UNKNOWN", "MANIFEST_UNKNOWN">>}

\* The JSON objects a manifest response may carry: which of the keys
\* 'signatures', 'fsLayers' and 'errors' it has, and the error list.
Bodies ==
    {b \in [signatures : BOOLEAN, fsLayers : BOOLEAN, hasErrors : BOOLEAN,
            errors : ErrorLists] : ~b.hasErrors => b.errors = <<>>}

\* The Www-Authenticate header of a 401: with or without the "Bearer "
\* prefix, with a parameter missing, or no header at all.
Challenges == {"Bearer realm service scope", "realm service scope", "Bearer realm", "no header"}

\* response.headers['Www-Authenticate'] and "...".format(**opts) succeed.
ChallengeParses(challenge) ==
    challenge \in {"Bearer realm service scope", "realm service scope"}

\* self.get raises on a status that is neither a success nor expected.
GetRaises(status, expected) == status # 200 /\ status \notin expected

FirstExpected == {404, 401}

RetryExpectedAsFirst == {404, 401}

RetryExpected == {404}

\* auth=(self.user, self.password) on the first manifest request.
FirstAuth == "basic"

\* if response.status_code == 401
NeedsHandshake(status) == status = 401

Request(kind, auth, status) == [kind |-> kind, auth |-> auth, status |-> status]

\* Lines 190-196 on the body of the response held.
Decide(body) ==
    IF body.signatures /\ body.fsLayers
    THEN "True"
    ELSE IF body.hasErrors /\ body.errors # <<>> /\ body.errors[1] = "MANIFEST_UNKNOWN"
         THEN "False"
         ELSE "CLIError"

PushedInit ==
    /\ pushed_reqs = <<>>
    /\ pushed_response = NoResponse
    /\ pushed_pc = "call"
    /\ pushed_result = "none"

\* response = self.get(url, auth=..., expected=(404, 401))
FirstRequest ==
    /\ pushed_pc = "call"
    /\ \E status \in Statuses, body \in Bodies, challenge \in Challenges :
         /\ pushed_reqs' = Append(pushed_reqs, Request("manifest", FirstAuth, status))
         /\ IF GetRaises(status, FirstExpected)
            THEN /\ pushed_pc' = "raised"
                 /\ pushed_result' = "HTTPError"
                 /\ UNCHANGED pushed_response
            ELSE /\ pushed_pc' = "first"
                 /\ pushed_response' = [status |-> status, body |-> body,
                                        challenge |-> IF status = 401 THEN challenge
                                                      ELSE "no header"]
                 /\ UNCHANGED pushed_result

\* The status is not 401: the body of the first response is decided on.
NoHandshake ==
    /\ pushed_pc = "first"
    /\ ~NeedsHandshake(pushed_response.status)
    /\ pushed_pc' = "decide"
    /\ UNCHANGED <<pushed_reqs, pushed_response, pushed_result>>

\* The status is 401: the challenge is parsed into realm, service and scope.
ParseChallenge ==
    /\ pushed_pc = "first"
    /\ NeedsHandshake(pushed_response.status)
    /\ IF ChallengeParses(pushed_response.challenge)
       THEN pushed_pc' = "token" /\ UNCHANGED pushed_result
       ELSE pushed_pc' = "raised" /\ pushed_result' = "KeyError"
    /\ UNCHANGED <<pushed_reqs, pushed_response>>

\* token = self.get(realm?service&scope, auth=...).json()['token']
TokenRequest ==
    /\ pushed_pc = "token"
    /\ \E status \in Statuses, hasToken \in BOOLEAN :
         /\ pushed_reqs' = Append(pushed_reqs, Request("token", "basic", status))
         /\ IF GetRaises(status, {})
            THEN pushed_pc' = "raised" /\ pushed_result' = "HTTPError"
            ELSE IF hasToken
                 THEN pushed_pc' = "retry" /\ UNCHANGED pushed_result
                 ELSE pushed_pc' = "raised" /\ pushed_result' = "KeyError"
    /\ UNCHANGED pushed_response

\* response = self.get(url, headers={'Authorization': 'Bearer token'},
\*                     expected=(404,))
RetryRequest ==
    /\ pushed_pc = "retry"
    /\ \E status \in Statuses, body \in Bodies :
         /\ pushed_reqs' = Append(pushed_reqs, Request("manifest", "bearer", status))
         /\ IF GetRaises(status, RetryExpected)
            THEN /\ pushed_pc' = "raised"
                 /\ pushed_result' = "HTTPError"
                 /\ UNCHANGED pushed_response
            ELSE /\ pushed_pc' = "decide"
                 /\ pushed_response' = [status |-> status, body |-> body,
                                        challenge |-> "no header"]
                 /\ UNCHANGED pushed_result

\* result = response.json() and the if/elif/raise on it.
PushedDecide ==
    /\ pushed_pc = "decide"
    /\ pushed_result' = Decide(pushed_response.body)
    /\ pushed_pc' = IF pushed_result' = "CLIError" THEN "raised" ELSE "returned"
    /\ UNCHANGED <<pushed_reqs, pushed_response>>

PushedStep ==
    \/ FirstRequest
    \/ NoHandshake
    \/ ParseChallenge
    \/ TokenRequest
    \/ RetryRequest
    \/ PushedDecide

PushedNext == PushedStep /\ UnchangedBut("pushed")

InitPushed == PushedInit /\ IdleBut("pushed")

SpecPushed == InitPushed /\ [][PushedNext]_vars

\* ------------------------------------------------------- pushed: claims
\* The call has decided on the body of the last manifest response.
Decided == pushed_result \in {"True", "False", "CLIError"}

\* C12: whenever the final manifest response has status 404, pushed returns
\* False, whatever the body.
C12_NotFoundMeansFalse ==
    (Decided /\ pushed_response.status = 404) => pushed_result = "False"

\* C13: pushed returns True only for a status-200 response with both
\* 'signatures' and 'fsLayers', False only for a non-empty error list whose
\* first code is MANIFEST_UNKNOWN, and raises CLIError for every other shape.
C13_NeverGuesses ==
    LET body == pushed_response.body
        published == pushed_response.status = 200 /\ body.signatures /\ body.fsLayers
        unknown == body.hasErrors /\ body.errors # <<>>
                       /\ body.errors[1] = "MANIFEST_UNKNOWN"
    IN  Decided =>
            /\ pushed_result = "True" => published
            /\ pushed_result = "False" => unknown
            /\ (~published /\ ~unknown) => pushed_result = "CLIError"

\* C14: the first manifest request carries no credentials; user and password
\* go only to the token realm.
C14_FirstRequestAnonymous ==
    \A k \in DOMAIN pushed_reqs :
        pushed_reqs[k].auth = "basic" => pushed_reqs[k].kind = "token"

\* C19: a token request comes only right after a first manifest request
\* answered 401; there is at most one token request and one retry, three
\* requests in all; the retry carries the bearer token; a retry answered
\* with anything but 200 or 404 ends the call in an error.
C19_HandshakeBounded ==
    /\ Len(pushed_reqs) <= 3
    /\ \A k \in DOMAIN pushed_reqs :
         /\ k = 1 => pushed_reqs[k].kind = "manifest"
         /\ pushed_reqs[k].kind = "token" => k = 2 /\ pushed_reqs[1].status = 401
         /\ (k > 1 /\ pushed_reqs[k].kind = "manifest") =>
                /\ k = 3
                /\ pushed_reqs[2] = Request("token", "basic", 200)
                /\ pushed_reqs[k].auth = "bearer"
    /\ (Len(pushed_reqs) = 3 /\ pushed_reqs[3].status \notin {200, 404}) =>
           pushed_pc = "raised" /\ pushed_result = "HTTPError"

\* C19 witness: the whole handshake ran and the retry was answered 401 again.
C19_Witness ==
    /\ Len(pushed_reqs) = 3
    /\ pushed_reqs[3].status = 401
    /\ pushed_pc = "raised"

\* ==================================================================== gh
\* One call of gh(api, expected) against a finite chain of pages.

MaxPages == 4    \* responses in the chain

\* The Link header of a page that is not the last: the rel of each link.
InnerLinks ==
    {[present |-> TRUE, rels |-> <<"next">>],
     [present |-> TRUE, rels |-> <<"prev", "next">>],
     [present |-> TRUE, rels |-> <<"next", "last">>]}

\* The Link header of the last page: none, or links without a next.
LastLinks ==
    {[present |-> FALSE, rels |-> <<>>],
     [present |-> TRUE, rels |-> <<"prev">>],
     [present |-> TRUE, rels |-> <<"first", "prev">>]}

\* The URL a link of page i points to, as a page number of a chain of n.
LinkUrl(rel, i, n) ==
    CASE rel = "next" -> i + 1
      [] rel = "prev" -> i - 1
      [] rel = "first" -> 1
      [] rel = "last" -> n

\* requests.utils.parse_header_links(response.headers["Link"]) of page i.
ParseLinks(i) ==
    [k \in DOMAIN gh_pages[i].header.rels |->
        [rel |-> gh_pages[i].header.rels[k],
         url |-> LinkUrl(gh_pages[i].header.rels[k], i, Len(gh_pages))]]

RECURSIVE FirstNext(_, _)
\* for link in links: if link['rel'] == 'next': return link['url']
FirstNext(links, k) ==
    IF k > Len(links) THEN 0
    ELSE IF links[k].rel = "next" THEN links[k].url
         ELSE FirstNext(links, k + 1)

NextPageFirstLink(i) ==
    IF gh_pages[i].header.present /\ ParseLinks(i)[1].rel = "next"
    THEN ParseLinks(i)[1].url
    ELSE 0

\* next_page(response) of page i, 0 for None.
NextPage(i) ==
    IF gh_pages[i].header.present THEN FirstNext(ParseLinks(i), 1) ELSE 0

\* response.ok
Ok(status) == status < 400

\* The body of page i: a list of one or two items.
PageBody(i, two) == IF two THEN <<i, i>> ELSE <<i>>

GhInit ==
    /\ \E n \in 1..MaxPages :
         \E inner \in [1..(n - 1) -> InnerLinks], last \in LastLinks,
            two \in [1..n -> BOOLEAN] :
             gh_pages = [i \in 1..n |->
                            [header |-> IF i < n THEN inner[i] ELSE last,
                             body |-> PageBody(i, two[i])]]
    /\ gh_status \in {200, 404}
    /\ gh_expected \in {{}, {404}}
    /\ gh_reqs = <<>>
    /\ gh_result = <<>>
    /\ gh_next_url = 0
    /\ gh_pc = "call"

\* response = self.get(url, ...); result = response.json();
\* if response.ok: next_url = next_page(response)
GhFirst ==
    /\ gh_pc = "call"
    /\ gh_reqs' = <<1>>
    /\ IF GetRaises(gh_status, gh_expected)
       THEN gh_pc' = "raised" /\ UNCHANGED <<gh_result, gh_next_url>>
       ELSE /\ gh_result' = gh_pages[1].body
            /\ IF Ok(gh_status)
               THEN gh_pc' = "loop" /\ gh_next_url' = NextPage(1)
               ELSE gh_pc' = "done" /\ UNCHANGED gh_next_url
    /\ UNCHANGED <<gh_pages, gh_status, gh_expected>>

\* One round of `while next_url`.
GhFollow ==
    /\ gh_pc = "loop"
    /\ gh_next_url # 0
    /\ gh_reqs' = Append(gh_reqs, gh_next_url)
    /\ gh_result' = gh_result \o gh_pages[gh_next_url].body
    /\ gh_next_url' = NextPage(gh_next_url)
    /\ UNCHANGED <<gh_pages, gh_status, gh_expected, gh_pc>>

\* next_url is None: return result.
GhReturn ==
    /\ gh_pc = "loop"
    /\ gh_next_url = 0
    /\ gh_pc' = "done"
    /\ UNCHANGED <<gh_pages, gh_status, gh_expected, gh_reqs, gh_result, gh_next_url>>

GhStep ==
    \/ GhFirst
    \/ GhFollow
    \/ GhReturn

GhNext == GhStep /\ UnchangedBut("gh")

InitGh == GhInit /\ IdleBut("gh")

\* gh is one sequential call: it keeps running until it returns or raises.
SpecGh == InitGh /\ [][GhNext]_vars /\ WF_vars(GhNext)

\* -------------------------------------------------------------- gh: claims
RECURSIVE BodiesUpTo(_)
\* The bodies of pages 1..k, concatenated in chain order.
BodiesUpTo(k) == IF k = 0 THEN <<>> ELSE BodiesUpTo(k - 1) \o gh_pages[k].body

\* The requests go down the chain in order and the result is the
\* concatenation of the bodies received.
GhInChainOrder ==
    /\ gh_reqs = [k \in 1..Len(gh_reqs) |-> k]
    /\ gh_pc \in {"loop", "done"} => gh_result = BodiesUpTo(Len(gh_reqs))
    /\ (gh_pc = "done" /\ Ok(gh_status)) => Len(gh_reqs) = Len(gh_pages)
    /\ (gh_pc = "done" /\ ~Ok(gh_status)) => Len(gh_reqs) = 1

\* C15: over a chain of n responses linked by rel="next", gh issues exactly n
\* requests in chain order, returns the n bodies concatenated in that order,
\* and terminates; a first response that is not ok has no link followed.
C15_Pagination ==
    /\ [](gh_pc # "idle" => GhInChainOrder)
    /\ <>(gh_pc \in {"done", "raised"})

\* C15 witness: a chain of four pages was walked to its end, one of its
\* headers listing another link before the next one.
C15_Witness ==
    /\ gh_pc = "done"
    /\ Len(gh_reqs) = 4
    /\ \E i \in DOMAIN gh_pages : gh_pages[i].header.rels = <<"prev", "next">>

\* ================================================================== pull
\* pull() after the listing has been fetched: filter, verify each entry with
\* one fan-out, then git_pull each survivor with a second fan-out.

MaxRepos == 3    \* entries of the listing

\* The full names the listing may hold, as strings of characters; entry i of
\* a listing is the i-th of them.
RepoName(i) ==
    CASE i % 4 = 1 -> <<"o", "/", "a">>
      [] i % 4 = 2 -> <<"o", "/", "b">>
      [] i % 4 = 3 -> <<"o", "/", "a", "b">>
      [] i % 4 = 0 -> <<"o", "/", "b", "a">>

\* The --filter values tried: the default "*", "o/a*", "*b" and "o/?".
Filters ==
    {<<"*">>, <<"o", "/", "a", "*">>, <<"*", "b">>, <<"o", "/", "?">>}

RECURSIVE Fnmatch(_, _)
\* fnmatch.fnmatch(name, pat) for patterns made of characters, * and ?.
Fnmatch(name, pat) ==
    IF pat = <<>> THEN name = <<>>
    ELSE IF Head(pat) = "*"
         THEN \/ Fnmatch(name, Tail(pat))
              \/ name # <<>> /\ Fnmatch(Tail(name), pat)
         ELSE /\ name # <<>>
              /\ Head(pat) = "?" \/ Head(pat) = Head(name)
              /\ Fnmatch(Tail(name), Tail(pat))

RECURSIVE FilteredUpTo(_)
\* filtered: the entries 1..k whose full_name matches, in listing order.
FilteredUpTo(k) ==
    IF k = 0 THEN <<>>
    ELSE IF Fnmatch(pull_repos[k].full_name, pull_filter)
         THEN Append(FilteredUpTo(k - 1), k)
         ELSE FilteredUpTo(k - 1)

Filtered == FilteredUpTo(Len(pull_repos))

\* What a verification fetch finds: the repository, a tolerated 404, or a
\* status gh raises on.
FetchOutcomes == {"found", "notfound", "error"}

SurvivesAlways(fetched) == TRUE

\* if "id" in repo
Survives(fetched) == fetched = "found"

PullInit ==
    /\ \E n \in 0..MaxRepos :
         \E fetch \in [1..n -> FetchOutcomes] :
             pull_repos = [i \in 1..n |-> [full_name |-> RepoName(i), fetch |-> fetch[i]]]
    /\ pull_filter \in Filters
    /\ pull_dirs0 \in SUBSET DOMAIN pull_repos
    /\ pull_dirs = pull_dirs0
    /\ pull_verify = <<>>
    /\ pull_urls = <<>>
    /\ pull_syncs = <<>>
    /\ pull_inited = {}
    /\ pull_pulled = {}
    /\ pull_pc = "call"
    /\ pull_wait = 1

\* The for loop drives the verification fan-out: one fetch per filtered
\* entry is spawned.
PullSpawnVerify ==
    /\ pull_pc = "call"
    /\ pull_verify' = [k \in DOMAIN Filtered |-> [repo |-> Filtered[k], state |-> "spawned"]]
    /\ pull_pc' = "verify"
    /\ UNCHANGED <<pull_repos, pull_filter, pull_dirs0, pull_dirs, pull_urls,
                   pull_syncs, pull_inited, pull_pulled, pull_wait>>

\* The caller takes the result of the fetch it waited on; the loop body
\* appends the survivors to urls.
TakeVerify ==
    LET thread == pull_verify[pull_wait]
    IN  IF thread.state = "failed"
        THEN /\ pull_pc' = "raised"
             /\ UNCHANGED <<pull_urls, pull_wait>>
        ELSE /\ pull_pc' = "verify"
             /\ pull_wait' = pull_wait + 1
             /\ pull_urls' = IF Survives(pull_repos[thread.repo].fetch)
                             THEN Append(pull_urls, thread.repo)
                             ELSE pull_urls

\* thread.wait() of the verification fan-out.
PullWaitVerify ==
    /\ pull_pc = "verify"
    /\ pull_wait <= Len(pull_verify)
    /\ IF pull_verify[pull_wait].state \in {"done", "failed"}
       THEN TakeVerify
       ELSE pull_pc' = "verify_blocked" /\ UNCHANGED <<pull_urls, pull_wait>>
    /\ UNCHANGED <<pull_repos, pull_filter, pull_dirs0, pull_dirs, pull_verify,
                   pull_syncs, pull_inited, pull_pulled>>

\* The fetch waited on has finished: the caller is switched back in.
PullResumeVerify ==
    /\ pull_pc = "verify_blocked"
    /\ pull_verify[pull_wait].state \in {"done", "failed"}
    /\ TakeVerify
    /\ UNCHANGED <<pull_repos, pull_filter, pull_dirs0, pull_dirs, pull_verify,
                   pull_syncs, pull_inited, pull_pulled>>

\* Every fetch has been waited on: the for loop ends.
PullVerified ==
    /\ pull_pc = "verify"
    /\ pull_wait > Len(pull_verify)
    /\ pull_pc' = "verified"
    /\ UNCHANGED <<pull_repos, pull_filter, pull_dirs0, pull_dirs, pull_verify,
                   pull_urls, pull_syncs, pull_inited, pull_pulled, pull_wait>>

\* force() drives the git_pull fan-out: one git_pull per survivor is spawned.
PullSpawnSyncs ==
    /\ pull_pc = "verified"
    /\ pull_syncs' = [k \in DOMAIN pull_urls |-> [repo |-> pull_urls[k], state |-> "spawned"]]
    /\ pull_pc' = "sync"
    /\ pull_wait' = 1
    /\ UNCHANGED <<pull_repos, pull_filter, pull_dirs0, pull_dirs, pull_verify,
                   pull_urls, pull_inited, pull_pulled>>

\* The caller takes the result of the git_pull it waited on.
TakeSync ==
    IF pull_syncs[pull_wait].state = "failed"
    THEN pull_pc' = "raised" /\ UNCHANGED pull_wait
    ELSE pull_pc' = "sync" /\ pull_wait' = pull_wait + 1

\* thread.wait() of the git_pull fan-out.
PullWaitSync ==
    /\ pull_pc = "sync"
    /\ pull_wait <= Len(pull_syncs)
    /\ IF pull_syncs[pull_wait].state \in {"done", "failed"}
       THEN TakeSync
       ELSE pull_pc' = "sync_blocked" /\ UNCHANGED pull_wait
    /\ UNCHANGED <<pull_repos, pull_filter, pull_dirs0, pull_dirs, pull_verify,
                   pull_urls, pull_syncs, pull_inited, pull_pulled>>

\* The git_pull waited on has finished: the caller is switched back in.
PullResumeSync ==
    /\ pull_pc = "sync_blocked"
    /\ pull_syncs[pull_wait].state \in {"done", "failed"}
    /\ TakeSync
    /\ UNCHANGED <<pull_repos, pull_filter, pull_dirs0, pull_dirs, pull_verify,
                   pull_urls, pull_syncs, pull_inited, pull_pulled>>

\* Every git_pull has been waited on: pull returns.
PullReturn ==
    /\ pull_pc = "sync"
    /\ pull_wait > Len(pull_syncs)
    /\ pull_pc' = "done"
    /\ UNCHANGED <<pull_repos, pull_filter, pull_dirs0, pull_dirs, pull_verify,
                   pull_urls, pull_syncs, pull_inited, pull_pulled, pull_wait>>

PullSwitchedOut == pull_pc \in {"verify_blocked", "sync_blocked"}

\* A verification thread is switched in: it issues its fetch.
VerifyStart(k) ==
    /\ PullSwitchedOut
    /\ pull_verify[k].state = "spawned"
    /\ pull_verify' = [pull_verify EXCEPT ![k].state = "fetching"]
    /\ UNCHANGED <<pull_repos, pull_filter, pull_dirs0, pull_dirs, pull_urls,
                   pull_syncs, pull_inited, pull_pulled, pull_pc, pull_wait>>

\* The fetch is answered: gh returns the body, or raises on a status that
\* is neither a success nor the tolerated 404.
VerifyFinish(k) ==
    /\ PullSwitchedOut
    /\ pull_verify[k].state = "fetching"
    /\ pull_verify' = [pull_verify EXCEPT ![k].state =
            IF pull_repos[pull_verify[k].repo].fetch = "error" THEN "failed" ELSE "done"]
    /\ UNCHANGED <<pull_repos, pull_filter, pull_dirs0, pull_dirs, pull_urls,
                   pull_syncs, pull_inited, pull_pulled, pull_pc, pull_wait>>

\* A git_pull thread is switched in: without a directory it makes one and
\* issues git init, otherwise it issues git pull at once.
GitPullStart(k) ==
    LET repo == pull_syncs[k].repo
    IN  /\ PullSwitchedOut
        /\ pull_syncs[k].state = "spawned"
        /\ IF repo \notin pull_dirs
           THEN /\ pull_dirs' = pull_dirs \cup {repo}
                /\ pull_syncs' = [pull_syncs EXCEPT ![k].state = "init"]
                /\ UNCHANGED pull_pulled
           ELSE /\ pull_syncs' = [pull_syncs EXCEPT ![k].state = "pull"]
                /\ pull_pulled' = pull_pulled \cup {repo}
                /\ UNCHANGED pull_dirs
        /\ UNCHANGED <<pull_repos, pull_filter, pull_dirs0, pull_verify, pull_urls,
                       pull_inited, pull_pc, pull_wait>>

\* git init ends: when it succeeded the thread issues git pull.
GitInitFinish(k) ==
    LET repo == pull_syncs[k].repo
    IN  /\ PullSwitchedOut
        /\ pull_syncs[k].state = "init"
        /\ \E outcome \in CallOutcomes :
             IF outcome = "ok"
             THEN /\ pull_syncs' = [pull_syncs EXCEPT ![k].state = "pull"]
                  /\ pull_inited' = pull_inited \cup {repo}
                  /\ pull_pulled' = pull_pulled \cup {repo}
             ELSE /\ pull_syncs' = [pull_syncs EXCEPT ![k].state = "failed"]
                  /\ UNCHANGED <<pull_inited, pull_pulled>>
        /\ UNCHANGED <<pull_repos, pull_filter, pull_dirs0, pull_dirs, pull_verify,
                       pull_urls, pull_pc, pull_wait>>

\* git pull ends.
GitPullFinish(k) ==
    /\ PullSwitchedOut
    /\ pull_syncs[k].state = "pull"
    /\ \E outcome \in CallOutcomes :
         pull_syncs' = [pull_syncs EXCEPT ![k].state =
                           IF outcome = "ok" THEN "done" ELSE "failed"]
    /\ UNCHANGED <<pull_repos, pull_filter, pull_dirs0, pull_dirs, pull_verify,
                   pull_urls, pull_inited, pull_pulled, pull_pc, pull_wait>>

PullStep ==
    \/ PullSpawnVerify
    \/ PullWaitVerify
    \/ PullResumeVerify
    \/ PullVerified
    \/ PullSpawnSyncs
    \/ PullWaitSync
    \/ PullResumeSync
    \/ PullReturn
    \/ \E k \in DOMAIN pull_verify : VerifyStart(k)
    \/ \E k \in DOMAIN pull_verify : VerifyFinish(k)
    \/ \E k \in DOMAIN pull_syncs : GitPullStart(k)
    \/ \E k \in DOMAIN pull_syncs : GitInitFinish(k)
    \/ \E k \in DOMAIN pull_syncs : GitPullFinish(k)

PullNext == PullStep /\ UnchangedBut("pull")

InitPull == PullInit /\ IdleBut("pull")

SpecPull == InitPull /\ [][PullNext]_vars

\* --------------------------------------------------------- pull: claims
\* The entries that match the filter and whose fetch found the repository.
Surviving ==
    {i \in DOMAIN pull_repos :
        /\ Fnmatch(pull_repos[i].full_name, pull_filter)
        /\ pull_repos[i].fetch = "found"}

\* Some fetch of the run answered with a status gh raises on.
FetchFailed ==
    \E i \in DOMAIN pull_repos :
        /\ Fnmatch(pull_repos[i].full_name, pull_filter)
        /\ pull_repos[i].fetch = "error"

\* C16: git pull is issued only for entries that match the filter and whose
\* verification found the repository, and for all of them when pull returns;
\* a not-found verification does not fail the run; no git pull is issued
\* before every verification fetch has completed; git init runs only where
\* no directory existed, and before that entry's git pull.
C16_PullSyncsSurvivors ==
    /\ pull_pulled \subseteq Surviving
    /\ pull_pc = "done" => pull_pulled = Surviving
    /\ (pull_pc = "raised" /\ pull_syncs = <<>>) => FetchFailed
    /\ pull_pulled # {} =>
           \A k \in DOMAIN pull_verify : pull_verify[k].state = "done"
    /\ \A k \in DOMAIN pull_syncs :
           pull_syncs[k].state # "spawned" =>
               \A j \in DOMAIN pull_verify : pull_verify[j].state = "done"
    /\ pull_inited \cap pull_dirs0 = {}
    /\ \A k \in DOMAIN pull_syncs :
           pull_syncs[k].state = "init" => pull_syncs[k].repo \notin pull_dirs0
    /\ pull_pulled \subseteq pull_dirs0 \cup pull_inited

\* C16 witness: a run that returned synced one entry after a git init, left
\* out an entry the filter rejects and skipped one that was not found.
C16_Witness ==
    /\ pull_pc = "done"
    /\ pull_inited # {}
    /\ \E i \in DOMAIN pull_repos : ~Fnmatch(pull_repos[i].full_name, pull_filter)
    /\ \E k \in DOMAIN pull_verify : pull_repos[pull_verify[k].repo].fetch = "notfound"

\* ========================================================== inject_token
\* git_pull hands inject_token(url, self.token) to the git pull command,
\* whose status line renders it.  Two runs over the same URL with two tokens
\* are kept side by side to compare what they show.

\* The clone URLs tried: "s://h", "s://h/t", "h/p", "s://h://p", "s://kt.h".
Urls ==
    {<<"s", ":", "/", "/", "h">>,
     <<"s", ":", "/", "/", "h", "/", "t">>,
     <<"h", "/", "p">>,
     <<"s", ":", "/", "/", "h", ":", "/", "/", "p">>,
     <<"s", ":", "/", "/", "k", "t", ".", "h">>}

\* The tokens tried: none, "k", "t", "kt" and "@h".
Tokens == {<<>>, <<"k">>, <<"t">>, <<"k", "t">>, <<"@", "h">>}

Plain(text) == [secret |-> FALSE, text |-> text]

Secret(text) == [secret |-> TRUE, text |-> text]

RECURSIVE FindSep(_, _)
\* The position of the first "://" of url at or after k, 0 when none.
FindSep(url, k) ==
    IF k + 2 > Len(url) THEN 0
    ELSE IF SubSeq(url, k, k + 2) = <<":", "/", "/">> THEN k
         ELSE FindSep(url, k + 1)

\* url.split("://", 1)
Split(url) ==
    LET k == FindSep(url, 1)
    IN  IF k = 0 THEN <<url>>
        ELSE <<SubSeq(url, 1, k - 1), SubSeq(url, k + 3, Len(url))>>

InjectTokenPlain(url, token) ==
    IF token = <<>> THEN [kind |-> "str", segs |-> <<Plain(url)>>]
    ELSE LET parts == Split(url)
         IN  IF Len(parts) = 2
             THEN [kind |-> "Elidable",
                   segs |-> <<Plain(parts[1] \o <<":", "/", "/">> \o token
                                    \o <<"@">> \o parts[2])>>]
             ELSE [kind |-> "Elidable",
                   segs |-> <<Plain(token \o <<"@">> \o parts[1])>>]

\* inject_token(url, token): the URL itself without a token, otherwise an
\* Elidable of plain strings and one Secret.
InjectToken(url, token) ==
    IF token = <<>> THEN [kind |-> "str", segs |-> <<Plain(url)>>]
    ELSE LET parts == Split(url)
         IN  IF Len(parts) = 2
             THEN [kind |-> "Elidable",
                   segs |-> <<Plain(parts[1] \o <<":", "/", "/">>), Secret(token),
                              Plain(<<"@">> \o parts[2])>>]
             ELSE [kind |-> "Elidable",
                   segs |-> <<Secret(token), Plain(<<"@">> \o parts[1])>>]

\* The fixed text shown in place of a Secret.
Marker == <<"<", "e", ">">>

RECURSIVE RenderSegs(_)
\* The status-line text of a value: its plain segments as they are, every
\* Secret replaced by the marker.
RenderSegs(segs) ==
    IF segs = <<>> THEN <<>>
    ELSE (IF Head(segs).secret THEN Marker ELSE Head(segs).text) \o RenderSegs(Tail(segs))

InjectInit ==
    /\ inj_url \in Urls
    /\ inj_token \in Tokens
    /\ inj_other \in Tokens
    /\ inj_value = NoValue
    /\ inj_value2 = NoValue
    /\ inj_line = <<>>
    /\ inj_line2 = <<>>
    /\ inj_pc = "call"

\* git_pull evaluates inject_token(url, self.token).
Inject ==
    /\ inj_pc = "call"
    /\ inj_value' = InjectToken(inj_url, inj_token)
    /\ inj_value2' = InjectToken(inj_url, inj_other)
    /\ inj_pc' = "injected"
    /\ UNCHANGED <<inj_url, inj_token, inj_other, inj_line, inj_line2>>

\* The status line of the git pull command is rendered.
RenderLine ==
    /\ inj_pc = "injected"
    /\ inj_line' = RenderSegs(inj_value.segs)
    /\ inj_line2' = RenderSegs(inj_value2.segs)
    /\ inj_pc' = "rendered"
    /\ UNCHANGED <<inj_url, inj_token, inj_other, inj_value, inj_value2>>

InjectStep ==
    \/ Inject
    \/ RenderLine

InjectNext == InjectStep /\ UnchangedBut("inject")

InitInject == InjectInit /\ IdleBut("inject")

SpecInject == InitInject /\ [][InjectNext]_vars

\* ------------------------------------------------- inject_token: claims
\* sub occurs in text.
Contains(text, sub) ==
    \E k \in 1..(Len(text) - Len(sub) + 1) : SubSeq(text, k, k + Len(sub) - 1) = sub

\* The token sits in exactly one segment of the value, a Secret one, and the
\* plain segments are the URL's own text around an added "@".
TokenOnlyInSecret ==
    /\ inj_value.kind = "Elidable"
    /\ \E k \in DOMAIN inj_value.segs :
         /\ inj_value.segs[k] = Secret(inj_token)
         /\ \A j \in DOMAIN inj_value.segs : j # k => ~inj_value.segs[j].secret
         /\ LET before == IF k = 1 THEN <<>> ELSE inj_value.segs[1].text
                after == inj_value.segs[Len(inj_value.segs)].text
            IN  /\ Head(after) = "@"
                /\ before \o Tail(after) = inj_url

\* With no token the URL is handed on as it is.
PassedThrough ==
    /\ inj_value = [kind |-> "str", segs |-> <<Plain(inj_url)>>]
    /\ inj_pc = "rendered" => inj_line = inj_url

\* C17 as stated: with a token the value keeps it inside a Secret only, the
\* rendered line is the same whatever the token, and the line never contains
\* the literal token; without a token the URL passes through unchanged.
C17_LineNeverContainsToken ==
    inj_pc \in {"injected", "rendered"} =>
        IF inj_token = <<>> THEN PassedThrough
        ELSE /\ TokenOnlyInSecret
             /\ inj_pc = "rendered" =>
                    /\ inj_other # <<>> => inj_line = inj_line2
                    /\ ~Contains(inj_line, inj_token)

\* C17 amended: the same, except that the line contains the token only where
\* the text shown for every token (the URL, the marker and the added "@")
\* happens to contain it.
C17_Redaction ==
    inj_pc \in {"injected", "rendered"} =>
        IF inj_token = <<>> THEN PassedThrough
        ELSE /\ TokenOnlyInSecret
             /\ inj_pc = "rendered" =>
                    /\ inj_other # <<>> => inj_line = inj_line2
                    /\ Contains(inj_line, inj_token) =>
                           \A other \in Tokens \ {<<>>} :
                               Contains(RenderSegs(InjectToken(inj_url, other).segs),
                                        inj_token)

\* C17 witness: two different tokens were injected into a URL with a scheme
\* and both lines were rendered.
C17_Witness ==
    /\ inj_pc = "rendered"
    /\ inj_token # <<>>
    /\ inj_other # <<>>
    /\ inj_token # inj_other
    /\ Len(inj_value.segs) = 3
    /\ Contains(inj_line, Marker)

\* ================================================================== scan
\* scan() over a workspace tree.  Directory 1 is the work directory; every
\* other directory lies in one with a smaller number.  Subdirectories are
\* visited in the order of their numbers.

MaxDirs == 3    \* directories of the workspace

Names(proto, service, docker, git) ==
    [proto |-> proto, service |-> service, docker |-> docker, git |-> git]

\* What a directory that is not called .git may hold.
PlainDirs ==
    {Names(FALSE, FALSE, FALSE, FALSE), Names(FALSE, FALSE, TRUE, FALSE),
     Names(FALSE, TRUE, FALSE, FALSE), Names(FALSE, TRUE, TRUE, FALSE),
     Names(TRUE, FALSE, FALSE, FALSE), Names(TRUE, TRUE, TRUE, FALSE)}

\* Directories called .git, here with markers in them.
GitDirs ==
    {Names(FALSE, FALSE, TRUE, TRUE), Names(FALSE, TRUE, TRUE, TRUE)}

ExcludedNone(d) == FALSE

\* n in self.EXCLUDED
Excluded(d) == scan_names[d].git

\* The subdirectories of dir with a number above after that descend() enters.
Subdirs(dir, after) ==
    {c \in DOMAIN scan_parent : c > after /\ c > 1 /\ scan_parent[c] = dir /\ ~Excluded(c)}

Min(S) == CHOOSE x \in S : \A y \in S : x <= y

Frame(dir, parent, after) == [dir |-> dir, parent |-> parent, after |-> after, listed |-> FALSE]

ScanInit ==
    /\ \E n \in 1..MaxDirs :
         /\ scan_parent \in {p \in [1..n -> 0..(n - 1)] :
                               p[1] = 0 /\ \A i \in 2..n : p[i] \in 1..(i - 1)}
         /\ scan_names \in {k \in [1..n -> PlainDirs \cup GitDirs] : k[1] \in PlainDirs}
    /\ scan_stack = <<>>
    /\ scan_entered = {}
    /\ scan_prototypes = <<>>
    /\ scan_services = <<>>
    /\ scan_pc = "call"

\* descend(self.workdir, None)
ScanCall ==
    /\ scan_pc = "call"
    /\ scan_stack' = <<Frame(1, 0, 1)>>
    /\ scan_pc' = "scan"
    /\ UNCHANGED <<scan_parent, scan_names, scan_entered, scan_prototypes, scan_services>>

\* The innermost descend() lists its directory and looks at the markers.
\* parent is the position of the current service in services, 0 for None.
ScanEnter ==
    LET top == scan_stack[Len(scan_stack)]
        names == scan_names[top.dir]
        parent == IF names.service THEN Len(scan_services) + 1 ELSE top.parent
        added == IF names.service
                 THEN Append(scan_services, [root |-> top.dir, containers |-> <<>>])
                 ELSE scan_services
    IN  /\ scan_pc = "scan"
        /\ ~top.listed
        /\ scan_entered' = scan_entered \cup {top.dir}
        /\ IF names.proto
           THEN /\ scan_prototypes' = Append(scan_prototypes, top.dir)
                /\ scan_stack' = SubSeq(scan_stack, 1, Len(scan_stack) - 1)
                /\ scan_pc' = IF Len(scan_stack) = 1 THEN "done" ELSE "scan"
                /\ UNCHANGED scan_services
           ELSE \E outcome \in CallOutcomes :
                  IF names.service /\ outcome = "fail"
                  THEN /\ scan_pc' = "raised"
                       /\ UNCHANGED <<scan_stack, scan_prototypes, scan_services>>
                  ELSE /\ outcome = "ok"
                       /\ scan_services' =
                              IF names.docker /\ parent # 0
                              THEN [added EXCEPT ![parent].containers = Append(@, top.dir)]
                              ELSE added
                       /\ scan_stack' = [scan_stack EXCEPT ![Len(scan_stack)] =
                                            [top EXCEPT !.parent = parent, !.listed = TRUE]]
                       /\ UNCHANGED <<scan_prototypes, scan_pc>>
        /\ UNCHANGED <<scan_parent, scan_names>>

\* for n in names: the next subdirectory that is not excluded is descended
\* into, with the current service carried along.
ScanDescend ==
    LET top == scan_stack[Len(scan_stack)]
        rest == Subdirs(top.dir, top.after)
    IN  /\ scan_pc = "scan"
        /\ top.listed
        /\ rest # {}
        /\ scan_stack' = Append([scan_stack EXCEPT ![Len(scan_stack)].after = Min(rest)],
                                Frame(Min(rest), top.parent, 1))
        /\ UNCHANGED <<scan_parent, scan_names, scan_entered, scan_prototypes,
                       scan_services, scan_pc>>

\* The for loop of the innermost descend() is over: it returns.
ScanAscend ==
    LET top == scan_stack[Len(scan_stack)]
    IN  /\ scan_pc = "scan"
        /\ top.listed
        /\ Subdirs(top.dir, top.after) = {}
        /\ scan_stack' = SubSeq(scan_stack, 1, Len(scan_stack) - 1)
        /\ scan_pc' = IF Len(scan_stack) = 1 THEN "done" ELSE "scan"
        /\ UNCHANGED <<scan_parent, scan_names, scan_entered, scan_prototypes,
                       scan_services>>

ScanStep ==
    \/ ScanCall
    \/ ScanEnter
    \/ ScanDescend
    \/ ScanAscend

ScanNext == ScanStep /\ UnchangedBut("scan")

InitScan == ScanInit /\ IdleBut("scan")

SpecScan == InitScan /\ [][ScanNext]_vars

\* --------------------------------------------------------- scan: claims
RECURSIVE NearestService(_)
\* The nearest directory at or above d with a service marker, 0 when none.
NearestService(d) ==
    IF d = 0 THEN 0
    ELSE IF scan_names[d].service THEN d
         ELSE NearestService(scan_parent[d])

RECURSIVE UnderPrototype(_)
\* d is a prototype directory or lies below one.
UnderPrototype(d) ==
    IF d = 0 THEN FALSE
    ELSE scan_names[d].proto \/ UnderPrototype(scan_parent[d])

RECURSIVE UnderGit(_)
\* d is a .git directory or lies below one.
UnderGit(d) ==
    IF d = 0 THEN FALSE
    ELSE scan_names[d].git \/ UnderGit(scan_parent[d])

\* The services whose container list holds directory d, by their roots,
\* one per occurrence.
Attributions(d) ==
    {<<k, j>> \in (DOMAIN scan_services) \X (1..Len(scan_names)) :
        /\ j \in DOMAIN scan_services[k].containers
        /\ scan_services[k].containers[j] = d}

\* The directories that are the root of a recorded service.
ServiceRoots == {scan_services[k].root : k \in DOMAIN scan_services}

\* C18: after scan every directory with a Dockerfile is attributed to at
\* most one service, the nearest directory at or above it with a service
\* marker, and to none when there is none; no directory at or below a
\* prototype contributes a service or a container; .git directories are
\* never entered.
C18_ScannerAttribution ==
    /\ \A d \in DOMAIN scan_names :
         /\ Cardinality(Attributions(d)) <= 1
         /\ \A a \in Attributions(d) :
                /\ scan_names[d].docker
                /\ scan_services[a[1]].root = NearestService(d)
         /\ UnderPrototype(d) => d \notin ServiceRoots /\ Attributions(d) = {}
         /\ scan_names[d].git => d \notin scan_entered
         /\ (scan_pc = "done" /\ scan_names[d].docker /\ ~UnderPrototype(d)
                 /\ ~UnderGit(d) /\ NearestService(d) # 0) =>
                Attributions(d) # {}
    /\ \A k, j \in DOMAIN scan_services :
         scan_services[k].root = scan_services[j].root => k = j

\* C18 witness: the scan returned; a Dockerfile directory below two nested
\* services went to the inner one.
C18_Witness ==
    /\ scan_pc = "done"
    /\ \E d \in DOMAIN scan_names :
         /\ Attributions(d) # {}
         /\ NearestService(d) # d
         /\ NearestService(scan_parent[NearestService(d)]) # 0

\* =============================================================== default
\* default(args) on the dictionary docopt made of the command line.  A key
\* of args is <<"--", name>> for the option --name and <<"<>", name>> for the
\* positional <name>; <<"", name>> stands for the bare string name.

\* for name in ("token", "user", "password", "workdir")
OptionNames == <<"token", "user", "password", "workdir">>

\* for name in ("organization", "docker-repo")
PositionalNames == <<"organization", "docker-repo">>

\* arg = "--%s" % name
OptionKey(name) == <<"--", name>>

\* arg = "<%s>" % name
PositionalKey(name) == <<"<>", name>>

\* The keys docopt gives args for these names: every option and positional
\* of the usage text, with None when the command line does not supply it.
DocoptKeys ==
    {OptionKey(OptionNames[k]) : k \in DOMAIN OptionNames}
        \cup {PositionalKey(PositionalNames[k]) : k \in DOMAIN PositionalNames}

ConfNames ==
    {OptionNames[k] : k \in DOMAIN OptionNames}
        \cup {PositionalNames[k] : k \in DOMAIN PositionalNames}

\* The key the membership test of the first loop looks up: arg.
TestedKeyOption(name) == OptionKey(name)

\* The key the membership test of the second loop looks up: name.
TestedKeyBare(name) == <<"", name>>

\* `key not in args or args[arg] is None and name in conf`
Replaces(args, conf, tested, arg, name) ==
    \/ tested \notin DOMAIN args
    \/ args[arg] = "None" /\ conf[name] # "missing"

DefaultInit ==
    /\ def_args0 \in [DocoptKeys -> {"None", "cli"}]
    /\ def_args = def_args0
    /\ def_conf \in [ConfNames -> {"missing", "conf"}]
    /\ def_file \in BOOLEAN
    /\ def_i = 1
    /\ def_pc = "call"

\* conf_file = get_config(args); if not conf_file: return; conf = yaml.load
DefaultCall ==
    /\ def_pc = "call"
    /\ def_pc' = IF def_file THEN "options" ELSE "done"
    /\ UNCHANGED <<def_args0, def_args, def_conf, def_file, def_i>>

\* args[arg] = conf[name], a KeyError when conf has no such name.
Assign(arg, name, after) ==
    IF def_conf[name] = "missing"
    THEN def_pc' = "raised" /\ UNCHANGED <<def_args, def_i>>
    ELSE /\ def_args' = [def_args EXCEPT ![arg] = def_conf[name]]
         /\ after

\* One round of the first loop.
DefaultOption ==
    LET name == OptionNames[def_i]
        arg == OptionKey(name)
        after == IF def_i < Len(OptionNames)
                 THEN def_i' = def_i + 1 /\ def_pc' = "options"
                 ELSE def_i' = 1 /\ def_pc' = "positionals"
    IN  /\ def_pc = "options"
        /\ IF Replaces(def_args, def_conf, TestedKeyOption(name), arg, name)
           THEN Assign(arg, name, after)
           ELSE after /\ UNCHANGED def_args
        /\ UNCHANGED <<def_args0, def_conf, def_file>>

\* One round of the second loop.
DefaultPositional ==
    LET name == PositionalNames[def_i]
        arg == PositionalKey(name)
        after == IF def_i < Len(PositionalNames)
                 THEN def_i' = def_i + 1 /\ def_pc' = "positionals"
                 ELSE def_i' = def_i /\ def_pc' = "done"
    IN  /\ def_pc = "positionals"
        /\ IF Replaces(def_args, def_conf, TestedKeyBare(name), arg, name)
           THEN Assign(arg, name, after)
           ELSE after /\ UNCHANGED def_args
        /\ UNCHANGED <<def_args0, def_conf, def_file>>

DefaultStep ==
    \/ DefaultCall
    \/ DefaultOption
    \/ DefaultPositional

DefaultNext == DefaultStep /\ UnchangedBut("default")

InitDefault == DefaultInit /\ IdleBut("default")

SpecDefault == InitDefault /\ [][DefaultNext]_vars

\* ------------------------------------------------------ default: claims
\* The name a key of args stands for.
NameOf(key) == key[2]

\* C20: default replaces an argument by the config file's value only when
\* the command line did not supply it and the config file defines the name;
\* a value from the command line is left as it is, and a name missing from
\* the config file never causes an error.
C20_CommandLineWins ==
    /\ def_pc # "raised"
    /\ def_pc # "idle" =>
           \A key \in DocoptKeys :
               /\ def_args0[key] = "cli" => def_args[key] = "cli"
               /\ def_args[key] # def_args0[key] =>
                      /\ def_args0[key] = "None"
                      /\ def_conf[NameOf(key)] = "conf"
                      /\ def_args[key] = "conf"

====
